---------------------------- MODULE Spec2Model ----------------------------
(***************************************************************************)
(* State-machine model of src/mandelbrot-viewer.js: the Mandelbrot scan    *)
(* engine (class Mandelbrot) and its navigation controller (class          *)
(* MandelbrotControls), run by a JavaScript host.                          *)
(*                                                                         *)
(* One step of the model is one job of the host: a task (a click, a        *)
(* pointer event, an animation-frame callback that resumes a suspended     *)
(* scan or makes a pass of the render loop) or one microtask (the          *)
(* continuation of an `await cancel()`, the `.then` callback of a scan     *)
(* promise).  Tasks run only when the microtask queue `jobs` is empty, as  *)
(* in the host.                                                            *)
(*                                                                         *)
(* Numbers.  The viewport values of the program are float64.  With a       *)
(* canvas whose sides are powers of two every viewport value the model     *)
(* reaches is a dyadic rational on which float64 arithmetic is exact; it   *)
(* is held as an integer count of 1/Scale.  Pointer coordinates are held   *)
(* in half pixels.  The escape loop squares its values; its numbers are    *)
(* float64 values with a 53-bit mantissa, rounded as IEEE 754 rounds.      *)
(***************************************************************************)
EXTENDS Integers, Sequences, FiniteSets

\* ---------------------------------------------------------------- bounds
\* scan runs started in one behaviour
MaxRuns == 3
\* entries the zoom history may grow to
MaxChain == 3
\* handlers suspended in `await this.mandelbrot.cancel()` at one time
MaxWaiters == 2
\* the largest side, in pixels, of the canvases the constructor is tried on
MaxPx == 8

\* ------------------------------------------------------ program constants
ScaleBits == 12
Scale == 2^ScaleBits
side == 4
COLOR_CHECKERED == 0
COLOR_CHECKERED_BW == 1
\* the canvas the viewer was constructed on
imgWidth == 2
imgHeight == 4
imgSize == imgWidth * imgHeight
\* the scheme passed to the constructor
initColorFuncId == COLOR_CHECKERED

Min(a, b) == IF a < b THEN a ELSE b
Max(a, b) == IF a > b THEN a ELSE b
Abs(a) == IF a < 0 THEN -a ELSE a
\* the quotient of two numbers, rounded towards zero
Quot(a, b) == IF a >= 0 THEN a \div b ELSE -((-a) \div b)

\* ------------------------------------------------------------- Mandelbrot
\* the viewport of the canvas of the model, in 1/Scale.  The sides of this
\* canvas are powers of two, so the ratio and the sides the constructor
\* computes are exact; Init compares them with ConstructViewport.
initWidth ==
  IF imgWidth >= imgHeight THEN Quot(side * Scale * imgWidth, imgHeight) ELSE side * Scale
initHeight ==
  IF imgWidth >= imgHeight THEN side * Scale ELSE Quot(side * Scale * imgHeight, imgWidth)
\* this.center = [ 0.0, 0.0 ]
initCenter == <<0, 0>>

\* a threshold table that a side equal to a threshold passes
MaxNOfInclusive(minDim, unit) ==
  IF minDim * 10 >= 4 * unit THEN 250
  ELSE IF minDim * 100 >= 4 * unit THEN 1000
  ELSE IF minDim * 1000 >= 4 * unit THEN 2500
  ELSE IF minDim * 10000 >= 4 * unit THEN 5000
  ELSE IF minDim * 100000 >= 4 * unit THEN 10000
  ELSE IF minDim * 1000000 >= 4 * unit THEN 25000
  ELSE 50000
\* _getMaxN: the thresholds 4/10, 4/100, ... against minDim, which counts
\* 1/unit
MaxNOf(minDim, unit) ==
  IF minDim * 10 > 4 * unit THEN 250
  ELSE IF minDim * 100 > 4 * unit THEN 1000
  ELSE IF minDim * 1000 > 4 * unit THEN 2500
  ELSE IF minDim * 10000 > 4 * unit THEN 5000
  ELSE IF minDim * 100000 > 4 * unit THEN 10000
  ELSE IF minDim * 1000000 > 4 * unit THEN 25000
  ELSE 50000
\* _getMaxN on a viewport in 1/unit: minDim = Math.min(this.width, this.height)
GetMaxNIn(w, h, unit) == MaxNOf(Min(w, h), unit)
GetMaxN(w, h) == GetMaxNIn(w, h, Scale)

\* ------------------------------------------------------------- float64
\* The escape loop squares its values, which leaves every fixed grid, so its
\* numbers are held as float64 values: sgn * m * 2^e with sgn in {-1, 0, 1}
\* and, unless the value is zero, 2^52 <= m < 2^53.  The mantissa m is a
\* sequence of limbs, least significant first, each below Limb, without
\* leading zero limbs.  Every operation rounds its exact result to the
\* nearest such value, ties to the even mantissa, as IEEE 754 does.  The
\* exponent range is not limited: the loop's values stay far from overflow and
\* underflow.
LimbBits == 14
Limb == 2^LimbBits
MantBits == 53

LimbAt(a, i) == IF i \in 1 .. Len(a) THEN a[i] ELSE 0

RECURSIVE Trim(_)
Trim(a) ==
  IF a = <<>> THEN a
  ELSE IF a[Len(a)] = 0 THEN Trim(SubSeq(a, 1, Len(a) - 1)) ELSE a

RECURSIVE AddFrom(_, _, _, _)
AddFrom(a, b, i, carry) ==
  IF i > Len(a) /\ i > Len(b)
  THEN IF carry = 0 THEN <<>> ELSE <<carry>>
  ELSE LET t == LimbAt(a, i) + LimbAt(b, i) + carry
       IN <<t % Limb>> \o AddFrom(a, b, i + 1, t \div Limb)
BigAdd(a, b) == AddFrom(a, b, 1, 0)

\* a - b, for a >= b
RECURSIVE SubFrom(_, _, _, _)
SubFrom(a, b, i, borrow) ==
  IF i > Len(a) THEN <<>>
  ELSE LET t == LimbAt(a, i) - LimbAt(b, i) - borrow
       IN IF t < 0 THEN <<t + Limb>> \o SubFrom(a, b, i + 1, 1)
          ELSE <<t>> \o SubFrom(a, b, i + 1, 0)
BigSub(a, b) == Trim(SubFrom(a, b, 1, 0))

\* -1, 0 or 1 as a is below, equal to or above b
RECURSIVE CmpFrom(_, _, _)
CmpFrom(a, b, i) ==
  IF i = 0 THEN 0
  ELSE IF a[i] < b[i] THEN -1
  ELSE IF a[i] > b[i] THEN 1
  ELSE CmpFrom(a, b, i - 1)
BigCmp(a, b) ==
  IF Len(a) < Len(b) THEN -1
  ELSE IF Len(a) > Len(b) THEN 1
  ELSE CmpFrom(a, b, Len(a))

\* the sum of the limb products of column c
RECURSIVE MulCol(_, _, _, _)
MulCol(a, b, c, i) ==
  IF i > Len(a) \/ i > c THEN 0
  ELSE (IF c + 1 - i <= Len(b) THEN a[i] * b[c + 1 - i] ELSE 0) + MulCol(a, b, c, i + 1)
RECURSIVE MulFrom(_, _, _, _)
MulFrom(a, b, c, carry) ==
  IF c > Len(a) + Len(b) THEN <<>>
  ELSE LET t == MulCol(a, b, c, 1) + carry
       IN <<t % Limb>> \o MulFrom(a, b, c + 1, t \div Limb)
BigMul(a, b) == Trim(MulFrom(a, b, 1, 0))

LimbLen(x) == CHOOSE n \in 1 .. LimbBits : 2^(n - 1) <= x /\ x < 2^n
BitLen(a) == IF a = <<>> THEN 0 ELSE (Len(a) - 1) * LimbBits + LimbLen(a[Len(a)])

\* a * 2^k
ShiftL(a, k) ==
  LET q == k \div LimbBits
      r == k % LimbBits
      hi == 2^(LimbBits - r)
  IN Trim([i \in 1 .. Len(a) + q + 1 |->
             IF i <= q THEN 0
             ELSE (LimbAt(a, i - q) % hi) * 2^r + (LimbAt(a, i - q - 1) \div hi)])
\* a / 2^k, rounded down
ShiftR(a, k) ==
  LET q == k \div LimbBits
      r == k % LimbBits
  IN IF q >= Len(a) THEN <<>>
     ELSE Trim([i \in 1 .. Len(a) - q |->
                  (a[i + q] \div 2^r) + (LimbAt(a, i + q + 1) % 2^r) * 2^(LimbBits - r)])
\* bit j of a, bit 0 the lowest
Bit(a, j) == (LimbAt(a, j \div LimbBits + 1) \div 2^(j % LimbBits)) % 2
\* is one of the bits below bit j set
Sticky(a, j) ==
  \/ \E i \in 1 .. Len(a) : i <= j \div LimbBits /\ a[i] # 0
  \/ LimbAt(a, j \div LimbBits + 1) % 2^(j % LimbBits) # 0

FZero == [sgn |-> 0, m |-> <<>>, e |-> 0]
\* sgn * m1 * 2^e, for m1 of 53 bits, or of 54 bits when the rounding carried
RoundCarry(sgn, m1, e) ==
  IF BitLen(m1) > MantBits
  THEN [sgn |-> sgn, m |-> ShiftR(m1, 1), e |-> e + 1]
  ELSE [sgn |-> sgn, m |-> m1, e |-> e]
\* q is the exact value cut to 53 bits, half the first bit cut off, sticky
\* whether a lower bit is set: to the nearest, ties to the even mantissa
RoundCut(sgn, q, half, sticky, e) ==
  RoundCarry(sgn, IF half /\ (sticky \/ q[1] % 2 = 1) THEN BigAdd(q, <<1>>) ELSE q, e)
\* sgn * N * 2^e, for N of len bits
RoundLen(sgn, N, e, len) ==
  IF len <= MantBits
  THEN [sgn |-> sgn, m |-> ShiftL(N, MantBits - len), e |-> e - (MantBits - len)]
  ELSE RoundCut(sgn, ShiftR(N, len - MantBits), Bit(N, len - MantBits - 1) = 1,
                Sticky(N, len - MantBits - 1), e + (len - MantBits))
\* sgn * N * 2^e, rounded to a float64
Round(sgn, N, e) == IF N = <<>> THEN FZero ELSE RoundLen(sgn, N, e, BitLen(N))

\* the float64 of k * 2^e, for an integer k
FromInt(k, e) ==
  LET a == IF k < 0 THEN -k ELSE k
  IN Round(IF k < 0 THEN -1 ELSE 1,
           Trim(<<a % Limb, (a \div Limb) % Limb, a \div (Limb * Limb)>>), e)

FNeg(x) == [x EXCEPT !.sgn = -@]
\* x * y
FMul(x, y) ==
  IF x.sgn = 0 \/ y.sgn = 0 THEN FZero
  ELSE Round(x.sgn * y.sgn, BigMul(x.m, y.m), x.e + y.e)
\* x + y: when the exponents are 56 or more apart, the smaller value is less
\* than a quarter of the last place of the larger, which is the result
\* the sign and the size of sa * A + sb * B, c being BigCmp(A, B)
SignedSum(sa, A, sb, B, c) ==
  IF sa = sb THEN <<sa, BigAdd(A, B)>>
  ELSE IF c >= 0 THEN <<sa, BigSub(A, B)>>
  ELSE <<sb, BigSub(B, A)>>
RoundSum(p, e) == Round(p[1], p[2], e)
\* (sa * A + sb * B) * 2^e
AddAligned(sa, A, sb, B, e) == RoundSum(SignedSum(sa, A, sb, B, BigCmp(A, B)), e)
\* hi + lo, for hi.e >= lo.e
AddOrdered(hi, lo) ==
  IF hi.e - lo.e >= 56 THEN hi
  ELSE AddAligned(hi.sgn, ShiftL(hi.m, hi.e - lo.e), lo.sgn, lo.m, lo.e)
FAdd(x, y) ==
  IF x.sgn = 0 THEN y
  ELSE IF y.sgn = 0 THEN x
  ELSE IF x.e >= y.e THEN AddOrdered(x, y)
  ELSE AddOrdered(y, x)
FSub(x, y) == FAdd(x, FNeg(y))
\* x <= 4.0
FLe4(x) ==
  \/ x.sgn <= 0
  \/ x.e < 2 - (MantBits - 1)
  \/ x.e = 2 - (MantBits - 1) /\ x.m = ShiftL(<<1>>, MantBits - 1)
\* 2.0
FTwo == [sgn |-> 1, m |-> ShiftL(<<1>>, MantBits - 1), e |-> 1 - (MantBits - 1)]
\* x / 2
FHalf(x) == IF x.sgn = 0 THEN x ELSE [x EXCEPT !.e = @ - 1]
\* Math.abs
FAbs(x) == [x EXCEPT !.sgn = @ * @]
\* -1, 0 or 1 as x is below, equal to or above y
FCmp(x, y) ==
  IF x.sgn # y.sgn THEN (IF x.sgn < y.sgn THEN -1 ELSE 1)
  ELSE IF x.sgn = 0 THEN 0
  ELSE IF x.e # y.e THEN (IF x.e < y.e THEN -x.sgn ELSE x.sgn)
  ELSE x.sgn * BigCmp(x.m, y.m)
\* Math.min, Math.max
FMin(x, y) == IF FCmp(y, x) < 0 THEN y ELSE x
FMax(x, y) == IF FCmp(y, x) > 0 THEN y ELSE x
\* Long division of rem * 2^k by d, for rem < d, one bit a step: q holds the
\* bits of the quotient so far, k is the number of steps to go.  The result
\* is <<quotient, remainder>>.
RECURSIVE DivLimb(_, _, _, _)
DivLimb(rem, d, q, k) ==
  IF k = 0 THEN <<q, rem>>
  ELSE IF BigCmp(ShiftL(rem, 1), d) >= 0
  THEN DivLimb(BigSub(ShiftL(rem, 1), d), d, 2 * q + 1, k - 1)
  ELSE DivLimb(ShiftL(rem, 1), d, 2 * q, k - 1)
\* n more limbs of a quotient: c = <<the limb found last, the remainder>>, Q
\* the limbs found before it.  The result is twice the quotient, plus one
\* when a remainder is left.
RECURSIVE DivLimbs(_, _, _, _)
DivLimbs(c, d, Q, n) ==
  IF n = 0
  THEN BigAdd(ShiftL(Trim(<<c[1]>> \o Q), 1), IF c[2] = <<>> THEN <<>> ELSE <<1>>)
  ELSE DivLimbs(DivLimb(c[2], d, 0, LimbBits), d, <<c[1]>> \o Q, n - 1)
\* x / y, for y other than zero: the leading bit of the quotient of the
\* significands, four limbs more (three bits more than the significand
\* holds, or four), and the rounding
FDiv(x, y) ==
  IF x.sgn = 0 THEN FZero
  ELSE Round(x.sgn * y.sgn,
             DivLimbs(IF BigCmp(x.m, y.m) >= 0 THEN <<1, BigSub(x.m, y.m)>>
                      ELSE <<0, x.m>>,
                      y.m, <<>>, 4),
             x.e - y.e - 4 * LimbBits - 1)
\* a float64 in the normal range, or zero
FNormal(x) == x.sgn = 0 \/ x.e >= -1022 - (MantBits - 1)

\* Exact values sgn * m * 2^e, m of any length: sums, differences and
\* products of float64 values without rounding, to state how far a rounded
\* result is from the exact one.
ExPair(p, e) == IF p[2] = <<>> THEN FZero ELSE [sgn |-> p[1], m |-> p[2], e |-> e]
ExAligned(sa, A, sb, B, e) == ExPair(SignedSum(sa, A, sb, B, BigCmp(A, B)), e)
ExAddAt(x, y, e) == ExAligned(x.sgn, ShiftL(x.m, x.e - e), y.sgn, ShiftL(y.m, y.e - e), e)
ExAdd(x, y) ==
  IF x.sgn = 0 THEN y
  ELSE IF y.sgn = 0 THEN x
  ELSE ExAddAt(x, y, IF x.e < y.e THEN x.e ELSE y.e)
ExSub(x, y) == ExAdd(x, FNeg(y))
ExMul(x, y) ==
  IF x.sgn = 0 \/ y.sgn = 0 THEN FZero
  ELSE [sgn |-> x.sgn * y.sgn, m |-> BigMul(x.m, y.m), e |-> x.e + y.e]
\* x * 2^k
ExScale(x, k) == IF x.sgn = 0 THEN x ELSE [x EXCEPT !.e = @ + k]
ExLe(x, y) == ExSub(x, y).sgn <= 0
ExEq(x, y) == ExSub(x, y).sgn = 0
\* |x - y| <= tol
ExNear(x, y, tol) == ExLe(FAbs(ExSub(x, y)), tol)

\* ---------------------------------------------- Mandelbrot, the constructor
\* a constructor that takes height = side / ratio whatever the ratio is
ConstructViewportTall(iw, ih) ==
  [center |-> <<FZero, FZero>>,
   width |-> FromInt(side, 0),
   height |-> FDiv(FromInt(side, 0), FDiv(FromInt(iw, 0), FromInt(ih, 0)))]
\* constructor: fit the circle of radius 2 in a canvas of iw x ih pixels.
\* ratio, width and height are the float64 values the code computes.
ConstructViewport(iw, ih) ==
  LET ratio == FDiv(FromInt(iw, 0), FromInt(ih, 0))
  IN IF FCmp(ratio, FromInt(1, 0)) >= 0
     THEN [center |-> <<FZero, FZero>>, width |-> FMul(FromInt(side, 0), ratio),
           height |-> FromInt(side, 0)]
     ELSE [center |-> <<FZero, FZero>>, width |-> FromInt(side, 0),
           height |-> FDiv(FromInt(side, 0), ratio)]

\* ------------------------------------------------------- the escape loop
\* The loop of _scan for one sample c = (cr, ci): zr, zi, tr = zr^2 and
\* ti = zi^2 are float64 values, n counts the iterations.
LoopStart == [zr |-> FZero, zi |-> FZero, tr |-> FZero, ti |-> FZero, n |-> 0]
\* while (n < this.maxN && tr + ti <= 4.0), negated
LoopDone(s, cap) == ~(s.n < cap /\ FLe4(FAdd(s.tr, s.ti)))

\* an iteration z = z^2 that leaves c out
\* tr = zr * zr; ti = zi * zi; ++n
LoopSquares(zr, zi, n) ==
  [zr |-> zr, zi |-> zi, tr |-> FMul(zr, zr), ti |-> FMul(zi, zi), n |-> n + 1]
LoopStepNoC(s, cr, ci, cap) ==
  IF LoopDone(s, cap) THEN s
  ELSE LoopSquares(FSub(s.tr, s.ti), FMul(FMul(FTwo, s.zr), s.zi), s.n)
\* one pass through the body of the loop: zi = 2.0 * zr * zi + ci;
\* zr = tr - ti + cr; tr = zr * zr; ti = zi * zi; ++n
LoopStep(s, cr, ci, cap) ==
  IF LoopDone(s, cap) THEN s
  ELSE LoopSquares(FAdd(FSub(s.tr, s.ti), cr),
                   FAdd(FMul(FMul(FTwo, s.zr), s.zi), ci), s.n)

\* The evaluation of the loop.  w.s is the state of the loop; (w.kr, w.ki) is
\* the z it had at the count w.at, taken anew at the counts 1, 2, 4, 8, ...
\* The next z depends on z alone, so when z is again what it was p iterations
\* before, it is the same after every further p iterations, as long as n is
\* below maxN: the evaluation then adds to n the multiples of p that fit below
\* maxN and makes the iterations that are left.
WalkStart == [s |-> LoopStart, kr |-> FZero, ki |-> FZero, at |-> 0, nk |-> 1]
\* the evaluation after the pass that gave the state t
WalkTake(w, t) ==
  IF t.n = w.nk
  THEN [s |-> t, kr |-> t.zr, ki |-> t.zi, at |-> t.n, nk |-> 2 * w.nk]
  ELSE [w EXCEPT !.s = t]
WalkStep(w, cr, ci, cap) ==
  IF LoopDone(w.s, cap) THEN w
  ELSE IF /\ w.s.n > w.at /\ w.s.zr = w.kr /\ w.s.zi = w.ki
          /\ cap - w.s.n >= w.s.n - w.at
  THEN [w EXCEPT !.s.n = @ + (w.s.n - w.at) * ((cap - w.s.n) \div (w.s.n - w.at))]
  ELSE WalkTake(w, LoopStep(w.s, cr, ci, cap))

\* 2^lg steps of the evaluation, or as many as the loop makes
RECURSIVE LoopRun(_, _, _, _, _)
LoopRun(w, cr, ci, cap, lg) ==
  IF LoopDone(w.s, cap) \/ lg = 0 THEN WalkStep(w, cr, ci, cap)
  ELSE LoopRun(LoopRun(w, cr, ci, cap, lg - 1), cr, ci, cap, lg - 1)

\* the iteration count n the loop ends with, for the sample (cr, ci) / Scale
EscapeN(cr, ci, cap) ==
  LoopRun(WalkStart, FromInt(cr, -ScaleBits), FromInt(ci, -ScaleBits), cap, 16).s.n

\* The counts the loop gives on the samples of a grid of 1/16 that holds the
\* samples of the scans of the model, tabulated for the values of maxN that the
\* viewports of the model give: the scans sweep the same samples over and
\* over.  Row a - GridRMin + 1 of a table is cr = a / 16, its entry
\* b - GridIMin + 1 is ci = b / 16.
GridStep == Scale \div 16
GridRMin == -64
GridRMax == 160
GridIMin == -32
GridIMax == 64
GridR == GridRMin .. GridRMax
GridI == GridIMin .. GridIMax
GridCaps == {250, 1000, 50000}
EscapeTable250 ==
  <<
    <<1, 1, 1, 1, 1, 1, 1, 1, 1, 1, 1, 1, 1, 1, 1, 1, 1, 1, 1, 1, 1, 1, 1, 1, 1, 1, 1, 1, 1, 1, 1, 1, 1, 1, 1, 1, 1, 1, 1, 1, 1, 1, 1, 1, 1, 1, 1, 1, 1, 1, 1, 1, 1, 1, 1, 1, 1, 1, 1, 1, 1, 1, 1, 1, 1, 1, 1, 1, 1, 1, 1, 1, 1, 1, 1, 1, 1, 1, 1, 1, 1, 1, 1, 1, 1, 1, 1, 1, 1, 1, 1, 1, 1, 1, 1, 1, 1>>,
    <<1, 1, 1, 1, 1, 1, 1, 1, 1, 1, 1, 1, 1, 1, 1, 1, 1, 1, 1, 1, 1, 1, 1, 1, 1, 1, 1, 1, 1, 1, 1, 1, 1, 1, 1, 1, 1, 1, 1, 1, 1, 1, 1, 1, 1, 1, 1, 1, 1, 1, 1, 1, 1, 1, 1, 1, 1, 1, 1, 1, 1, 1, 1, 1, 1, 1, 1, 1, 1, 1, 1, 1, 1, 1, 1, 1, 1, 1, 1, 1, 1, 1, 1, 1, 1, 1, 1, 1, 1, 1, 1, 1, 1, 1, 1, 1, 1>>,
    <<1, 1, 1, 1, 1, 1, 1, 1, 1, 1, 1, 1, 1, 1, 1, 1, 1, 1, 1, 1, 1, 1, 1, 1, 1, 1, 1, 1, 1, 1, 1, 1, 1, 1, 1, 1, 1, 1, 1, 1, 1, 1, 1, 1, 1, 1, 1, 1, 1, 1, 1, 1, 1, 1, 1, 1, 1, 1, 1, 1, 1, 1, 1, 1, 1, 1, 1, 1, 1, 1, 1, 1, 1, 1, 1, 1, 1, 1, 1, 1, 1, 1, 1, 1, 1, 1, 1, 1, 1, 1, 1, 1, 1, 1, 1, 1, 1>>,
    <<1, 1, 1, 1, 1, 1, 1, 1, 1, 1, 1, 1, 1, 1, 1, 1, 1, 1, 1, 1, 1, 1, 1, 1, 1, 1, 1, 1, 1, 1, 1, 1, 1, 1, 1, 1, 1, 1, 1, 1, 1, 1, 1, 1, 1, 1, 1, 1, 1, 1, 1, 1, 1, 1, 1, 1, 1, 1, 1, 1, 1, 1, 1, 1, 1, 1, 1, 1, 1, 1, 1, 1, 1, 1, 1, 1, 1, 1, 1, 1, 1, 1, 1, 1, 1, 1, 1, 1, 1, 1, 1, 1, 1, 1, 1, 1, 1>>,
    <<1, 1, 1, 1, 1, 1, 1, 1, 1, 1, 1, 1, 1, 1, 1, 1, 1, 1, 1, 1, 1, 1, 1, 1, 1, 1, 1, 1, 1, 1, 1, 1, 1, 1, 1, 1, 1, 1, 1, 1, 1, 1, 1, 1, 1, 1, 1, 1, 1, 1, 1, 1, 1, 1, 1, 1, 1, 1, 1, 1, 1, 1, 1, 1, 1, 1, 1, 1, 1, 1, 1, 1, 1, 1, 1, 1, 1, 1, 1, 1, 1, 1, 1, 1, 1, 1, 1, 1, 1, 1, 1, 1, 1, 1, 1, 1, 1>>,
    <<1, 1, 1, 1, 1, 1, 1, 1, 1, 1, 1, 1, 1, 1, 1, 1, 1, 1, 1, 1, 1, 1, 1, 1, 1, 1, 1, 1, 1, 1, 1, 1, 1, 1, 1, 1, 1, 1, 1, 1, 1, 1, 1, 1, 1, 1, 1, 1, 1, 1, 1, 1, 1, 1, 1, 1, 1, 1, 1, 1, 1, 1, 1, 1, 1, 1, 1, 1, 1, 1, 1, 1, 1, 1, 1, 1, 1, 1, 1, 1, 1, 1, 1, 1, 1, 1, 1, 1, 1, 1, 1, 1, 1, 1, 1, 1, 1>>,
    <<1, 1, 1, 1, 1, 1, 1, 1, 1, 1, 1, 1, 1, 1, 1, 1, 1, 1, 1, 1, 1, 1, 1, 1, 1, 1, 1, 1, 1, 1, 1, 1, 1, 1, 1, 1, 1, 1, 1, 1, 1, 1, 1, 1, 1, 1, 1, 1, 1, 1, 1, 1, 1, 1, 1, 1, 1, 1, 1, 1, 1, 1, 1, 1, 1, 1, 1, 1, 1, 1, 1, 1, 1, 1, 1, 1, 1, 1, 1, 1, 1, 1, 1, 1, 1, 1, 1, 1, 1, 1, 1, 1, 1, 1, 1, 1, 1>>,
    <<1, 1, 1, 1, 1, 1, 1, 1, 1, 1, 1, 1, 1, 1, 1, 1, 1, 1, 1, 1, 1, 1, 1, 1, 1, 1, 1, 1, 1, 1, 1, 1, 1, 1, 1, 1, 1, 1, 1, 1, 1, 1, 1, 1, 1, 1, 1, 1, 1, 1, 1, 1, 1, 1, 1, 1, 1, 1, 1, 1, 1, 1, 1, 1, 1, 1, 1, 1, 1, 1, 1, 1, 1, 1, 1, 1, 1, 1, 1, 1, 1, 1, 1, 1, 1, 1, 1, 1, 1, 1, 1, 1, 1, 1, 1, 1, 1>>,
    <<1, 1, 1, 1, 1, 1, 1, 1, 1, 1, 1, 1, 1, 1, 1, 1, 1, 1, 1, 1, 1, 1, 1, 1, 1, 1, 1, 1, 1, 1, 1, 1, 1, 1, 1, 1, 1, 1, 1, 1, 1, 1, 1, 1, 1, 1, 1, 1, 1, 1, 1, 1, 1, 1, 1, 1, 1, 1, 1, 1, 1, 1, 1, 1, 1, 1, 1, 1, 1, 1, 1, 1, 1, 1, 1, 1, 1, 1, 1, 1, 1, 1, 1, 1, 1, 1, 1, 1, 1, 1, 1, 1, 1, 1, 1, 1, 1>>,
    <<1, 1, 1, 1, 1, 1, 1, 1, 1, 1, 1, 1, 1, 1, 1, 1, 1, 1, 1, 1, 1, 1, 1, 1, 1, 1, 1, 1, 1, 1, 1, 1, 1, 1, 1, 1, 1, 1, 1, 1, 1, 1, 1, 1, 1, 1, 1, 1, 1, 1, 1, 1, 1, 1, 1, 1, 1, 1, 1, 1, 1, 1, 1, 1, 1, 1, 1, 1, 1, 1, 1, 1, 1, 1, 1, 1, 1, 1, 1, 1, 1, 1, 1, 1, 1, 1, 1, 1, 1, 1, 1, 1, 1, 1, 1, 1, 1>>,
    <<1, 1, 1, 1, 1, 1, 1, 1, 1, 1, 1, 1, 1, 1, 1, 1, 1, 1, 1, 1, 1, 1, 1, 1, 1, 1, 1, 1, 1, 1, 1, 1, 1, 1, 1, 1, 1, 1, 1, 1, 1, 1, 1, 1, 1, 1, 1, 1, 1, 1, 1, 1, 1, 1, 1, 1, 1, 1, 1, 1, 1, 1, 1, 1, 1, 1, 1, 1, 1, 1, 1, 1, 1, 1, 1, 1, 1, 1, 1, 1, 1, 1, 1, 1, 1, 1, 1, 1, 1, 1, 1, 1, 1, 1, 1, 1, 1>>,
    <<1, 1, 1, 1, 1, 1, 1, 1, 1, 1, 1, 1, 1, 1, 1, 1, 1, 1, 1, 1, 1, 1, 1, 1, 1, 1, 1, 1, 1, 1, 1, 1, 1, 1, 1, 1, 1, 1, 1, 1, 1, 1, 1, 1, 1, 1, 1, 1, 1, 1, 1, 1, 1, 1, 1, 1, 1, 1, 1, 1, 1, 1, 1, 1, 1, 1, 1, 1, 1, 1, 1, 1, 1, 1, 1, 1, 1, 1, 1, 1, 1, 1, 1, 1, 1, 1, 1, 1, 1, 1, 1, 1, 1, 1, 1, 1, 1>>,
    <<1, 1, 1, 1, 1, 1, 1, 1, 1, 1, 1, 1, 1, 1, 1, 1, 1, 1, 1, 1, 1, 1, 1, 1, 1, 1, 1, 1, 1, 1, 1, 1, 1, 1, 1, 1, 1, 1, 1, 1, 1, 1, 1, 1, 1, 1, 1, 1, 1, 1, 1, 1, 1, 1, 1, 1, 1, 1, 1, 1, 1, 1, 1, 1, 1, 1, 1, 1, 1, 1, 1, 1, 1, 1, 1, 1, 1, 1, 1, 1, 1, 1, 1, 1, 1, 1, 1, 1, 1, 1, 1, 1, 1, 1, 1, 1, 1>>,
    <<1, 1, 1, 1, 1, 1, 1, 1, 1, 1, 1, 1, 1, 1, 1, 1, 1, 1, 1, 1, 1, 1, 1, 1, 1, 1, 1, 1, 1, 1, 1, 1, 1, 1, 1, 1, 1, 1, 1, 1, 1, 1, 1, 1, 1, 1, 1, 1, 1, 1, 1, 1, 1, 1, 1, 1, 1, 1, 1, 1, 1, 1, 1, 1, 1, 1, 1, 1, 1, 1, 1, 1, 1, 1, 1, 1, 1, 1, 1, 1, 1, 1, 1, 1, 1, 1, 1, 1, 1, 1, 1, 1, 1, 1, 1, 1, 1>>,
    <<1, 1, 1, 1, 1, 1, 1, 1, 1, 1, 1, 1, 1, 1, 1, 1, 1, 1, 1, 1, 1, 1, 1, 1, 1, 1, 1, 1, 1, 1, 1, 1, 1, 1, 1, 1, 1, 1, 1, 1, 1, 1, 1, 1, 1, 1, 1, 1, 1, 1, 1, 1, 1, 1, 1, 1, 1, 1, 1, 1, 1, 1, 1, 1, 1, 1, 1, 1, 1, 1, 1, 1, 1, 1, 1, 1, 1, 1, 1, 1, 1, 1, 1, 1, 1, 1, 1, 1, 1, 1, 1, 1, 1, 1, 1, 1, 1>>,
    <<1, 1, 1, 1, 1, 1, 1, 1, 1, 1, 1, 1, 1, 1, 1, 1, 1, 1, 1, 1, 1, 1, 1, 1, 1, 1, 1, 1, 1, 1, 1, 1, 1, 1, 1, 1, 1, 1, 1, 1, 1, 1, 1, 1, 1, 1, 1, 1, 1, 1, 1, 1, 1, 1, 1, 1, 1, 1, 1, 1, 1, 1, 1, 1, 1, 1, 1, 1, 1, 1, 1, 1, 1, 1, 1, 1, 1, 1, 1, 1, 1, 1, 1, 1, 1, 1, 1, 1, 1, 1, 1, 1, 1, 1, 1, 1, 1>>,
    <<1, 1, 1, 1, 1, 1, 1, 1, 1, 1, 1, 1, 1, 1, 1, 1, 1, 1, 1, 1, 1, 1, 1, 1, 1, 1, 1, 1, 1, 1, 1, 1, 1, 1, 1, 1, 1, 1, 1, 1, 1, 1, 1, 1, 1, 1, 1, 1, 1, 1, 1, 1, 1, 1, 1, 1, 1, 1, 1, 1, 1, 1, 1, 1, 1, 1, 1, 1, 1, 1, 1, 1, 1, 1, 1, 1, 1, 1, 1, 1, 1, 1, 1, 1, 1, 1, 1, 1, 1, 1, 1, 1, 1, 1, 1, 1, 1>>,
    <<1, 1, 1, 1, 1, 1, 1, 1, 1, 1, 1, 1, 1, 1, 1, 1, 1, 1, 1, 1, 1, 1, 1, 1, 1, 1, 1, 1, 1, 1, 1, 1, 1, 1, 1, 1, 1, 1, 1, 1, 1, 1, 1, 1, 1, 1, 1, 1, 1, 1, 1, 1, 1, 1, 1, 1, 1, 1, 1, 1, 1, 1, 1, 1, 1, 1, 1, 1, 1, 1, 1, 1, 1, 1, 1, 1, 1, 1, 1, 1, 1, 1, 1, 1, 1, 1, 1, 1, 1, 1, 1, 1, 1, 1, 1, 1, 1>>,
    <<1, 1, 1, 1, 1, 1, 1, 1, 1, 1, 1, 1, 1, 1, 1, 1, 1, 1, 1, 1, 1, 1, 1, 1, 1, 1, 1, 1, 1, 1, 1, 1, 1, 1, 1, 1, 1, 1, 1, 1, 1, 1, 1, 1, 1, 1, 1, 1, 1, 1, 1, 1, 1, 1, 1, 1, 1, 1, 1, 1, 1, 1, 1, 1, 1, 1, 1, 1, 1, 1, 1, 1, 1, 1, 1, 1, 1, 1, 1, 1, 1, 1, 1, 1, 1, 1, 1, 1, 1, 1, 1, 1, 1, 1, 1, 1, 1>>,
    <<1, 1, 1, 1, 1, 1, 1, 1, 1, 1, 1, 1, 1, 1, 1, 1, 1, 1, 1, 1, 1, 1, 1, 1, 1, 1, 1, 1, 1, 1, 1, 1, 1, 1, 1, 1, 1, 1, 1, 1, 1, 1, 1, 1, 1, 1, 1, 1, 1, 1, 1, 1, 1, 1, 1, 1, 1, 1, 1, 1, 1, 1, 1, 1, 1, 1, 1, 1, 1, 1, 1, 1, 1, 1, 1, 1, 1, 1, 1, 1, 1, 1, 1, 1, 1, 1, 1, 1, 1, 1, 1, 1, 1, 1, 1, 1, 1>>,
    <<1, 1, 1, 1, 1, 1, 1, 1, 1, 1, 1, 1, 1, 1, 1, 1, 1, 1, 1, 1, 1, 1, 1, 1, 1, 1, 1, 1, 1, 1, 1, 1, 1, 1, 1, 1, 1, 1, 1, 1, 1, 1, 1, 1, 1, 1, 1, 1, 1, 1, 1, 1, 1, 1, 1, 1, 1, 1, 1, 1, 1, 1, 1, 1, 1, 1, 1, 1, 1, 1, 1, 1, 1, 1, 1, 1, 1, 1, 1, 1, 1, 1, 1, 1, 1, 1, 1, 1, 1, 1, 1, 1, 1, 1, 1, 1, 1>>,
    <<1, 1, 1, 1, 1, 1, 1, 1, 1, 1, 1, 1, 1, 1, 1, 1, 1, 1, 1, 1, 1, 1, 1, 1, 1, 1, 1, 1, 1, 1, 1, 1, 1, 1, 1, 1, 1, 1, 1, 1, 1, 1, 1, 1, 1, 1, 1, 1, 1, 1, 1, 1, 1, 1, 1, 1, 1, 1, 1, 1, 1, 1, 1, 1, 1, 1, 1, 1, 1, 1, 1, 1, 1, 1, 1, 1, 1, 1, 1, 1, 1, 1, 1, 1, 1, 1, 1, 1, 1, 1, 1, 1, 1, 1, 1, 1, 1>>,
    <<1, 1, 1, 1, 1, 1, 1, 1, 1, 1, 1, 1, 1, 1, 1, 1, 1, 1, 1, 1, 1, 1, 1, 1, 1, 1, 1, 1, 1, 1, 1, 1, 1, 1, 1, 1, 1, 1, 1, 1, 1, 1, 1, 1, 1, 1, 1, 1, 1, 1, 1, 1, 1, 1, 1, 1, 1, 1, 1, 1, 1, 1, 1, 1, 1, 1, 1, 1, 1, 1, 1, 1, 1, 1, 1, 1, 1, 1, 1, 1, 1, 1, 1, 1, 1, 1, 1, 1, 1, 1, 1, 1, 1, 1, 1, 1, 1>>,
    <<1, 1, 1, 1, 1, 1, 1, 1, 1, 1, 1, 1, 1, 1, 1, 1, 1, 1, 1, 1, 1, 1, 1, 1, 1, 1, 1, 1, 1, 1, 1, 1, 1, 1, 1, 1, 1, 1, 1, 1, 1, 1, 1, 1, 1, 1, 1, 1, 1, 1, 1, 1, 1, 1, 1, 1, 1, 1, 1, 1, 1, 1, 1, 1, 1, 1, 1, 1, 1, 1, 1, 1, 1, 1, 1, 1, 1, 1, 1, 1, 1, 1, 1, 1, 1, 1, 1, 1, 1, 1, 1, 1, 1, 1, 1, 1, 1>>,
    <<1, 1, 1, 1, 1, 1, 1, 1, 1, 1, 1, 1, 1, 1, 1, 1, 1, 1, 1, 1, 1, 1, 1, 1, 1, 1, 1, 1, 1, 1, 1, 1, 1, 1, 1, 1, 1, 1, 1, 1, 1, 1, 1, 1, 1, 1, 1, 1, 1, 1, 1, 1, 1, 1, 1, 1, 1, 1, 1, 1, 1, 1, 1, 1, 1, 1, 1, 1, 1, 1, 1, 1, 1, 1, 1, 1, 1, 1, 1, 1, 1, 1, 1, 1, 1, 1, 1, 1, 1, 1, 1, 1, 1, 1, 1, 1, 1>>,
    <<1, 1, 1, 1, 1, 1, 1, 1, 1, 1, 1, 1, 1, 1, 1, 1, 1, 1, 1, 1, 1, 1, 1, 1, 1, 1, 1, 1, 1, 1, 1, 1, 1, 1, 1, 1, 1, 1, 1, 1, 1, 1, 1, 1, 1, 1, 1, 1, 1, 1, 1, 1, 1, 1, 1, 1, 1, 1, 1, 1, 1, 1, 1, 1, 1, 1, 1, 1, 1, 1, 1, 1, 1, 1, 1, 1, 1, 1, 1, 1, 1, 1, 1, 1, 1, 1, 1, 1, 1, 1, 1, 1, 1, 1, 1, 1, 1>>,
    <<1, 1, 1, 1, 1, 1, 1, 1, 1, 1, 1, 1, 1, 1, 1, 1, 1, 1, 1, 1, 1, 1, 1, 1, 1, 1, 1, 1, 1, 1, 1, 1, 1, 1, 1, 1, 1, 1, 1, 1, 1, 1, 1, 1, 1, 1, 1, 1, 1, 1, 1, 1, 1, 1, 1, 1, 1, 1, 1, 1, 1, 1, 1, 1, 1, 1, 1, 1, 1, 1, 1, 1, 1, 1, 1, 1, 1, 1, 1, 1, 1, 1, 1, 1, 1, 1, 1, 1, 1, 1, 1, 1, 1, 1, 1, 1, 1>>,
    <<1, 1, 1, 1, 1, 1, 1, 1, 1, 1, 1, 1, 1, 1, 1, 1, 1, 1, 1, 1, 1, 1, 1, 1, 1, 1, 1, 1, 1, 1, 1, 1, 1, 1, 1, 1, 1, 1, 1, 1, 1, 1, 1, 1, 1, 1, 1, 1, 1, 1, 1, 1, 1, 1, 1, 1, 1, 1, 1, 1, 1, 1, 1, 1, 1, 1, 1, 1, 1, 1, 1, 1, 1, 1, 1, 1, 1, 1, 1, 1, 1, 1, 1, 1, 1, 1, 1, 1, 1, 1, 1, 1, 1, 1, 1, 1, 1>>,
    <<1, 1, 1, 1, 1, 1, 1, 1, 1, 1, 1, 1, 1, 1, 1, 1, 1, 1, 1, 1, 1, 1, 1, 1, 1, 1, 1, 1, 1, 1, 1, 1, 1, 1, 1, 1, 1, 1, 1, 1, 1, 1, 1, 1, 1, 1, 1, 1, 1, 1, 1, 1, 1, 1, 1, 1, 1, 1, 1, 1, 1, 1, 1, 1, 1, 1, 1, 1, 1, 1, 1, 1, 1, 1, 1, 1, 1, 1, 1, 1, 1, 1, 1, 1, 1, 1, 1, 1, 1, 1, 1, 1, 1, 1, 1, 1, 1>>,
    <<1, 1, 1, 1, 1, 1, 1, 1, 1, 1, 1, 1, 1, 1, 1, 1, 1, 1, 1, 1, 1, 1, 1, 1, 1, 1, 1, 1, 1, 1, 1, 1, 1, 1, 1, 1, 1, 1, 1, 1, 1, 1, 1, 1, 1, 1, 1, 1, 1, 1, 1, 1, 1, 1, 1, 1, 1, 1, 1, 1, 1, 1, 1, 1, 1, 1, 1, 1, 1, 1, 1, 1, 1, 1, 1, 1, 1, 1, 1, 1, 1, 1, 1, 1, 1, 1, 1, 1, 1, 1, 1, 1, 1, 1, 1, 1, 1>>,
    <<1, 1, 1, 1, 1, 1, 1, 1, 1, 1, 1, 1, 1, 1, 1, 1, 1, 1, 1, 1, 1, 1, 1, 1, 1, 1, 1, 1, 1, 1, 1, 1, 1, 1, 1, 1, 1, 1, 1, 1, 1, 1, 1, 1, 1, 1, 1, 1, 1, 1, 1, 1, 1, 1, 1, 1, 1, 1, 1, 1, 1, 1, 1, 1, 1, 1, 1, 1, 1, 1, 1, 1, 1, 1, 1, 1, 1, 1, 1, 1, 1, 1, 1, 1, 1, 1, 1, 1, 1, 1, 1, 1, 1, 1, 1, 1, 1>>,
    <<1, 1, 1, 1, 1, 1, 1, 1, 1, 1, 1, 1, 1, 1, 1, 1, 1, 1, 1, 1, 1, 1, 1, 1, 1, 1, 1, 1, 1, 1, 1, 1, 1, 1, 1, 1, 1, 1, 1, 1, 1, 1, 1, 1, 1, 1, 1, 1, 1, 1, 1, 1, 1, 1, 1, 1, 1, 1, 1, 1, 1, 1, 1, 1, 1, 1, 1, 1, 1, 1, 1, 1, 1, 1, 1, 1, 1, 1, 1, 1, 1, 1, 1, 1, 1, 1, 1, 1, 1, 1, 1, 1, 1, 1, 1, 1, 1>>,
    <<1, 1, 1, 1, 1, 1, 1, 1, 1, 1, 1, 1, 1, 1, 1, 1, 1, 1, 1, 1, 1, 1, 1, 1, 1, 1, 1, 1, 1, 1, 1, 1, 250, 1, 1, 1, 1, 1, 1, 1, 1, 1, 1, 1, 1, 1, 1, 1, 1, 1, 1, 1, 1, 1, 1, 1, 1, 1, 1, 1, 1, 1, 1, 1, 1, 1, 1, 1, 1, 1, 1, 1, 1, 1, 1, 1, 1, 1, 1, 1, 1, 1, 1, 1, 1, 1, 1, 1, 1, 1, 1, 1, 1, 1, 1, 1, 1>>,
    <<1, 1, 1, 1, 1, 1, 1, 1, 1, 1, 1, 1, 1, 1, 1, 1, 1, 1, 1, 1, 1, 1, 1, 1, 1, 2, 3, 3, 3, 4, 4, 5, 250, 5, 4, 4, 3, 3, 3, 2, 1, 1, 1, 1, 1, 1, 1, 1, 1, 1, 1, 1, 1, 1, 1, 1, 1, 1, 1, 1, 1, 1, 1, 1, 1, 1, 1, 1, 1, 1, 1, 1, 1, 1, 1, 1, 1, 1, 1, 1, 1, 1, 1, 1, 1, 1, 1, 1, 1, 1, 1, 1, 1, 1, 1, 1, 1>>,
    <<1, 1, 1, 1, 1, 1, 1, 1, 1, 1, 1, 1, 1, 1, 1, 1, 1, 1, 1, 1, 1, 2, 2, 2, 3, 3, 3, 3, 4, 4, 4, 5, 250, 5, 4, 4, 4, 3, 3, 3, 3, 2, 2, 2, 1, 1, 1, 1, 1, 1, 1, 1, 1, 1, 1, 1, 1, 1, 1, 1, 1, 1, 1, 1, 1, 1, 1, 1, 1, 1, 1, 1, 1, 1, 1, 1, 1, 1, 1, 1, 1, 1, 1, 1, 1, 1, 1, 1, 1, 1, 1, 1, 1, 1, 1, 1, 1>>,
    <<1, 1, 1, 1, 1, 1, 1, 1, 1, 1, 1, 1, 1, 1, 1, 1, 1, 1, 1, 2, 2, 2, 3, 3, 3, 3, 3, 3, 4, 4, 4, 6, 250, 6, 4, 4, 4, 3, 3, 3, 3, 3, 3, 2, 2, 2, 1, 1, 1, 1, 1, 1, 1, 1, 1, 1, 1, 1, 1, 1, 1, 1, 1, 1, 1, 1, 1, 1, 1, 1, 1, 1, 1, 1, 1, 1, 1, 1, 1, 1, 1, 1, 1, 1, 1, 1, 1, 1, 1, 1, 1, 1, 1, 1, 1, 1, 1>>,
    <<1, 1, 1, 1, 1, 1, 1, 1, 1, 1, 1, 1, 1, 1, 1, 1, 1, 2, 2, 2, 2, 3, 3, 3, 3, 3, 3, 4, 4, 4, 4, 7, 250, 7, 4, 4, 4, 4, 3, 3, 3, 3, 3, 3, 2, 2, 2, 2, 1, 1, 1, 1, 1, 1, 1, 1, 1, 1, 1, 1, 1, 1, 1, 1, 1, 1, 1, 1, 1, 1, 1, 1, 1, 1, 1, 1, 1, 1, 1, 1, 1, 1, 1, 1, 1, 1, 1, 1, 1, 1, 1, 1, 1, 1, 1, 1, 1>>,
    <<1, 1, 1, 1, 1, 1, 1, 1, 1, 1, 1, 1, 1, 1, 1, 2, 2, 2, 2, 3, 3, 3, 3, 3, 3, 3, 3, 4, 4, 4, 5, 6, 250, 6, 5, 4, 4, 4, 3, 3, 3, 3, 3, 3, 3, 3, 2, 2, 2, 2, 1, 1, 1, 1, 1, 1, 1, 1, 1, 1, 1, 1, 1, 1, 1, 1, 1, 1, 1, 1, 1, 1, 1, 1, 1, 1, 1, 1, 1, 1, 1, 1, 1, 1, 1, 1, 1, 1, 1, 1, 1, 1, 1, 1, 1, 1, 1>>,
    <<1, 1, 1, 1, 1, 1, 1, 1, 1, 1, 1, 1, 1, 1, 2, 2, 2, 2, 3, 3, 3, 3, 3, 3, 3, 3, 4, 4, 4, 5, 6, 6, 250, 6, 6, 5, 4, 4, 4, 3, 3, 3, 3, 3, 3, 3, 3, 2, 2, 2, 2, 1, 1, 1, 1, 1, 1, 1, 1, 1, 1, 1, 1, 1, 1, 1, 1, 1, 1, 1, 1, 1, 1, 1, 1, 1, 1, 1, 1, 1, 1, 1, 1, 1, 1, 1, 1, 1, 1, 1, 1, 1, 1, 1, 1, 1, 1>>,
    <<1, 1, 1, 1, 1, 1, 1, 1, 1, 1, 1, 1, 1, 2, 2, 2, 2, 3, 3, 3, 3, 3, 3, 3, 3, 3, 4, 4, 5, 5, 6, 7, 250, 7, 6, 5, 5, 4, 4, 3, 3, 3, 3, 3, 3, 3, 3, 3, 2, 2, 2, 2, 1, 1, 1, 1, 1, 1, 1, 1, 1, 1, 1, 1, 1, 1, 1, 1, 1, 1, 1, 1, 1, 1, 1, 1, 1, 1, 1, 1, 1, 1, 1, 1, 1, 1, 1, 1, 1, 1, 1, 1, 1, 1, 1, 1, 1>>,
    <<1, 1, 1, 1, 1, 1, 1, 1, 1, 1, 1, 2, 2, 2, 2, 2, 2, 3, 3, 3, 3, 3, 3, 3, 3, 3, 4, 5, 5, 5, 7, 7, 250, 7, 7, 5, 5, 5, 4, 3, 3, 3, 3, 3, 3, 3, 3, 3, 2, 2, 2, 2, 2, 2, 1, 1, 1, 1, 1, 1, 1, 1, 1, 1, 1, 1, 1, 1, 1, 1, 1, 1, 1, 1, 1, 1, 1, 1, 1, 1, 1, 1, 1, 1, 1, 1, 1, 1, 1, 1, 1, 1, 1, 1, 1, 1, 1>>,
    <<1, 1, 1, 1, 1, 1, 1, 1, 1, 1, 2, 2, 2, 2, 2, 2, 3, 3, 3, 3, 3, 3, 3, 3, 3, 4, 5, 5, 5, 6, 8, 9, 250, 9, 8, 6, 5, 5, 5, 4, 3, 3, 3, 3, 3, 3, 3, 3, 3, 2, 2, 2, 2, 2, 2, 1, 1, 1, 1, 1, 1, 1, 1, 1, 1, 1, 1, 1, 1, 1, 1, 1, 1, 1, 1, 1, 1, 1, 1, 1, 1, 1, 1, 1, 1, 1, 1, 1, 1, 1, 1, 1, 1, 1, 1, 1, 1>>,
    <<1, 1, 1, 1, 1, 1, 1, 1, 1, 2, 2, 2, 2, 2, 2, 3, 3, 3, 3, 3, 3, 3, 3, 3, 3, 4, 5, 6, 6, 7, 11, 17, 250, 17, 11, 7, 6, 6, 5, 4, 3, 3, 3, 3, 3, 3, 3, 3, 3, 3, 2, 2, 2, 2, 2, 2, 1, 1, 1, 1, 1, 1, 1, 1, 1, 1, 1, 1, 1, 1, 1, 1, 1, 1, 1, 1, 1, 1, 1, 1, 1, 1, 1, 1, 1, 1, 1, 1, 1, 1, 1, 1, 1, 1, 1, 1, 1>>,
    <<1, 1, 1, 1, 1, 1, 1, 1, 2, 2, 2, 2, 2, 2, 2, 3, 3, 3, 3, 3, 3, 3, 3, 3, 4, 6, 6, 7, 7, 8, 11, 250, 250, 250, 11, 8, 7, 7, 6, 6, 4, 3, 3, 3, 3, 3, 3, 3, 3, 3, 2, 2, 2, 2, 2, 2, 2, 1, 1, 1, 1, 1, 1, 1, 1, 1, 1, 1, 1, 1, 1, 1, 1, 1, 1, 1, 1, 1, 1, 1, 1, 1, 1, 1, 1, 1, 1, 1, 1, 1, 1, 1, 1, 1, 1, 1, 1>>,
    <<1, 1, 1, 1, 1, 1, 1, 1, 2, 2, 2, 2, 2, 2, 3, 3, 3, 3, 3, 3, 3, 3, 3, 3, 4, 7, 14, 11, 9, 13, 19, 84, 250, 84, 19, 13, 9, 11, 14, 7, 4, 3, 3, 3, 3, 3, 3, 3, 3, 3, 3, 2, 2, 2, 2, 2, 2, 1, 1, 1, 1, 1, 1, 1, 1, 1, 1, 1, 1, 1, 1, 1, 1, 1, 1, 1, 1, 1, 1, 1, 1, 1, 1, 1, 1, 1, 1, 1, 1, 1, 1, 1, 1, 1, 1, 1, 1>>,
    <<1, 1, 1, 1, 1, 1, 1, 2, 2, 2, 2, 2, 2, 2, 3, 3, 3, 3, 3, 3, 3, 3, 3, 4, 5, 6, 8, 19, 24, 96, 250, 250, 250, 250, 250, 96, 24, 19, 8, 6, 5, 4, 3, 3, 3, 3, 3, 3, 3, 3, 3, 2, 2, 2, 2, 2, 2, 2, 1, 1, 1, 1, 1, 1, 1, 1, 1, 1, 1, 1, 1, 1, 1, 1, 1, 1, 1, 1, 1, 1, 1, 1, 1, 1, 1, 1, 1, 1, 1, 1, 1, 1, 1, 1, 1, 1, 1>>,
    <<1, 1, 1, 1, 1, 1, 2, 2, 2, 2, 2, 2, 2, 3, 3, 3, 3, 3, 3, 3, 3, 3, 4, 4, 5, 6, 7, 12, 250, 250, 250, 250, 250, 250, 250, 250, 250, 12, 7, 6, 5, 4, 4, 3, 3, 3, 3, 3, 3, 3, 3, 3, 2, 2, 2, 2, 2, 2, 2, 1, 1, 1, 1, 1, 1, 1, 1, 1, 1, 1, 1, 1, 1, 1, 1, 1, 1, 1, 1, 1, 1, 1, 1, 1, 1, 1, 1, 1, 1, 1, 1, 1, 1, 1, 1, 1, 1>>,
    <<1, 1, 1, 1, 1, 2, 2, 2, 2, 2, 2, 2, 2, 3, 3, 3, 3, 3, 3, 3, 3, 4, 4, 5, 5, 5, 8, 11, 250, 250, 250, 250, 250, 250, 250, 250, 250, 11, 8, 5, 5, 5, 4, 4, 3, 3, 3, 3, 3, 3, 3, 3, 2, 2, 2, 2, 2, 2, 2, 2, 1, 1, 1, 1, 1, 1, 1, 1, 1, 1, 1, 1, 1, 1, 1, 1, 1, 1, 1, 1, 1, 1, 1, 1, 1, 1, 1, 1, 1, 1, 1, 1, 1, 1, 1, 1, 1>>,
    <<1, 1, 1, 1, 1, 2, 2, 2, 2, 2, 2, 2, 2, 3, 3, 3, 3, 3, 3, 3, 3, 4, 4, 5, 5, 6, 8, 20, 250, 250, 250, 250, 250, 250, 250, 250, 250, 20, 8, 6, 5, 5, 4, 4, 3, 3, 3, 3, 3, 3, 3, 3, 2, 2, 2, 2, 2, 2, 2, 2, 1, 1, 1, 1, 1, 1, 1, 1, 1, 1, 1, 1, 1, 1, 1, 1, 1, 1, 1, 1, 1, 1, 1, 1, 1, 1, 1, 1, 1, 1, 1, 1, 1, 1, 1, 1, 1>>,
    <<1, 1, 1, 1, 2, 2, 2, 2, 2, 2, 2, 2, 3, 3, 3, 3, 3, 3, 3, 3, 4, 4, 4, 5, 5, 6, 7, 15, 35, 250, 250, 250, 250, 250, 250, 250, 35, 15, 7, 6, 5, 5, 4, 4, 4, 3, 3, 3, 3, 3, 3, 3, 3, 2, 2, 2, 2, 2, 2, 2, 2, 1, 1, 1, 1, 1, 1, 1, 1, 1, 1, 1, 1, 1, 1, 1, 1, 1, 1, 1, 1, 1, 1, 1, 1, 1, 1, 1, 1, 1, 1, 1, 1, 1, 1, 1, 1>>,
    <<1, 1, 1, 1, 2, 2, 2, 2, 2, 2, 2, 2, 3, 3, 3, 3, 3, 3, 3, 4, 4, 4, 5, 5, 5, 6, 7, 9, 24, 250, 250, 250, 250, 250, 250, 250, 24, 9, 7, 6, 5, 5, 5, 4, 4, 4, 3, 3, 3, 3, 3, 3, 3, 2, 2, 2, 2, 2, 2, 2, 2, 1, 1, 1, 1, 1, 1, 1, 1, 1, 1, 1, 1, 1, 1, 1, 1, 1, 1, 1, 1, 1, 1, 1, 1, 1, 1, 1, 1, 1, 1, 1, 1, 1, 1, 1, 1>>,
    <<1, 1, 1, 2, 2, 2, 2, 2, 2, 2, 2, 2, 3, 3, 3, 3, 3, 3, 4, 4, 4, 4, 5, 5, 6, 7, 8, 9, 11, 50, 250, 250, 250, 250, 250, 50, 11, 9, 8, 7, 6, 5, 5, 4, 4, 4, 4, 3, 3, 3, 3, 3, 3, 2, 2, 2, 2, 2, 2, 2, 2, 2, 1, 1, 1, 1, 1, 1, 1, 1, 1, 1, 1, 1, 1, 1, 1, 1, 1, 1, 1, 1, 1, 1, 1, 1, 1, 1, 1, 1, 1, 1, 1, 1, 1, 1, 1>>,
    <<1, 1, 1, 2, 2, 2, 2, 2, 2, 2, 2, 2, 3, 3, 3, 3, 3, 4, 4, 4, 4, 5, 5, 6, 6, 8, 8, 10, 13, 17, 26, 51, 250, 51, 26, 17, 13, 10, 8, 8, 6, 6, 5, 5, 4, 4, 4, 4, 3, 3, 3, 3, 3, 2, 2, 2, 2, 2, 2, 2, 2, 2, 1, 1, 1, 1, 1, 1, 1, 1, 1, 1, 1, 1, 1, 1, 1, 1, 1, 1, 1, 1, 1, 1, 1, 1, 1, 1, 1, 1, 1, 1, 1, 1, 1, 1, 1>>,
    <<1, 1, 2, 2, 2, 2, 2, 2, 2, 2, 2, 3, 3, 3, 3, 3, 3, 4, 4, 4, 4, 5, 6, 7, 9, 16, 21, 84, 250, 250, 250, 250, 250, 250, 250, 250, 250, 84, 21, 16, 9, 7, 6, 5, 4, 4, 4, 4, 3, 3, 3, 3, 3, 3, 2, 2, 2, 2, 2, 2, 2, 2, 2, 1, 1, 1, 1, 1, 1, 1, 1, 1, 1, 1, 1, 1, 1, 1, 1, 1, 1, 1, 1, 1, 1, 1, 1, 1, 1, 1, 1, 1, 1, 1, 1, 1, 1>>,
    <<1, 1, 2, 2, 2, 2, 2, 2, 2, 2, 2, 3, 3, 3, 3, 3, 4, 4, 4, 4, 5, 12, 9, 9, 12, 250, 250, 250, 250, 250, 250, 250, 250, 250, 250, 250, 250, 250, 250, 250, 12, 9, 9, 12, 5, 4, 4, 4, 4, 3, 3, 3, 3, 3, 2, 2, 2, 2, 2, 2, 2, 2, 2, 1, 1, 1, 1, 1, 1, 1, 1, 1, 1, 1, 1, 1, 1, 1, 1, 1, 1, 1, 1, 1, 1, 1, 1, 1, 1, 1, 1, 1, 1, 1, 1, 1, 1>>,
    <<1, 1, 2, 2, 2, 2, 2, 2, 2, 2, 2, 3, 3, 3, 3, 4, 4, 4, 4, 5, 6, 9, 22, 32, 18, 250, 250, 250, 250, 250, 250, 250, 250, 250, 250, 250, 250, 250, 250, 250, 18, 32, 22, 9, 6, 5, 4, 4, 4, 4, 3, 3, 3, 3, 2, 2, 2, 2, 2, 2, 2, 2, 2, 1, 1, 1, 1, 1, 1, 1, 1, 1, 1, 1, 1, 1, 1, 1, 1, 1, 1, 1, 1, 1, 1, 1, 1, 1, 1, 1, 1, 1, 1, 1, 1, 1, 1>>,
    <<1, 1, 2, 2, 2, 2, 2, 2, 2, 2, 2, 3, 3, 3, 3, 4, 4, 4, 4, 5, 6, 10, 20, 250, 250, 250, 250, 250, 250, 250, 250, 250, 250, 250, 250, 250, 250, 250, 250, 250, 250, 250, 20, 10, 6, 5, 4, 4, 4, 4, 3, 3, 3, 3, 2, 2, 2, 2, 2, 2, 2, 2, 2, 1, 1, 1, 1, 1, 1, 1, 1, 1, 1, 1, 1, 1, 1, 1, 1, 1, 1, 1, 1, 1, 1, 1, 1, 1, 1, 1, 1, 1, 1, 1, 1, 1, 1>>,
    <<1, 2, 2, 2, 2, 2, 2, 2, 2, 2, 2, 3, 3, 3, 4, 4, 4, 4, 5, 6, 6, 8, 12, 234, 250, 250, 250, 250, 250, 250, 250, 250, 250, 250, 250, 250, 250, 250, 250, 250, 250, 234, 12, 8, 6, 6, 5, 4, 4, 4, 4, 3, 3, 3, 2, 2, 2, 2, 2, 2, 2, 2, 2, 2, 1, 1, 1, 1, 1, 1, 1, 1, 1, 1, 1, 1, 1, 1, 1, 1, 1, 1, 1, 1, 1, 1, 1, 1, 1, 1, 1, 1, 1, 1, 1, 1, 1>>,
    <<1, 2, 2, 2, 2, 2, 2, 2, 2, 2, 2, 3, 3, 3, 4, 4, 5, 5, 5, 6, 7, 10, 154, 250, 250, 250, 250, 250, 250, 250, 250, 250, 250, 250, 250, 250, 250, 250, 250, 250, 250, 250, 154, 10, 7, 6, 5, 5, 5, 4, 4, 3, 3, 3, 2, 2, 2, 2, 2, 2, 2, 2, 2, 2, 1, 1, 1, 1, 1, 1, 1, 1, 1, 1, 1, 1, 1, 1, 1, 1, 1, 1, 1, 1, 1, 1, 1, 1, 1, 1, 1, 1, 1, 1, 1, 1, 1>>,
    <<1, 2, 2, 2, 2, 2, 2, 2, 2, 2, 2, 3, 3, 3, 4, 5, 5, 5, 6, 8, 8, 10, 250, 250, 250, 250, 250, 250, 250, 250, 250, 250, 250, 250, 250, 250, 250, 250, 250, 250, 250, 250, 250, 10, 8, 8, 6, 5, 5, 5, 4, 3, 3, 3, 2, 2, 2, 2, 2, 2, 2, 2, 2, 2, 1, 1, 1, 1, 1, 1, 1, 1, 1, 1, 1, 1, 1, 1, 1, 1, 1, 1, 1, 1, 1, 1, 1, 1, 1, 1, 1, 1, 1, 1, 1, 1, 1>>,
    <<1, 2, 2, 2, 2, 2, 2, 2, 2, 2, 2, 2, 3, 3, 5, 6, 6, 7, 13, 17, 22, 14, 250, 250, 250, 250, 250, 250, 250, 250, 250, 250, 250, 250, 250, 250, 250, 250, 250, 250, 250, 250, 250, 14, 22, 17, 13, 7, 6, 6, 5, 3, 3, 2, 2, 2, 2, 2, 2, 2, 2, 2, 2, 2, 1, 1, 1, 1, 1, 1, 1, 1, 1, 1, 1, 1, 1, 1, 1, 1, 1, 1, 1, 1, 1, 1, 1, 1, 1, 1, 1, 1, 1, 1, 1, 1, 1>>,
    <<1, 2, 2, 2, 2, 2, 2, 2, 2, 2, 2, 2, 3, 3, 6, 9, 8, 8, 11, 250, 250, 250, 250, 250, 250, 250, 250, 250, 250, 250, 250, 250, 250, 250, 250, 250, 250, 250, 250, 250, 250, 250, 250, 250, 250, 250, 11, 8, 8, 9, 6, 3, 3, 2, 2, 2, 2, 2, 2, 2, 2, 2, 2, 2, 1, 1, 1, 1, 1, 1, 1, 1, 1, 1, 1, 1, 1, 1, 1, 1, 1, 1, 1, 1, 1, 1, 1, 1, 1, 1, 1, 1, 1, 1, 1, 1, 1>>,
    <<1, 2, 2, 2, 2, 2, 2, 2, 2, 2, 2, 2, 3, 3, 5, 7, 13, 13, 250, 250, 250, 250, 250, 250, 250, 250, 250, 250, 250, 250, 250, 250, 250, 250, 250, 250, 250, 250, 250, 250, 250, 250, 250, 250, 250, 250, 250, 13, 13, 7, 5, 3, 3, 2, 2, 2, 2, 2, 2, 2, 2, 2, 2, 2, 1, 1, 1, 1, 1, 1, 1, 1, 1, 1, 1, 1, 1, 1, 1, 1, 1, 1, 1, 1, 1, 1, 1, 1, 1, 1, 1, 1, 1, 1, 1, 1, 1>>,
    <<1, 2, 2, 2, 2, 2, 2, 2, 2, 2, 2, 2, 3, 3, 4, 6, 20, 10, 16, 250, 250, 250, 250, 250, 250, 250, 250, 250, 250, 250, 250, 250, 250, 250, 250, 250, 250, 250, 250, 250, 250, 250, 250, 250, 250, 250, 16, 10, 20, 6, 4, 3, 3, 2, 2, 2, 2, 2, 2, 2, 2, 2, 2, 2, 1, 1, 1, 1, 1, 1, 1, 1, 1, 1, 1, 1, 1, 1, 1, 1, 1, 1, 1, 1, 1, 1, 1, 1, 1, 1, 1, 1, 1, 1, 1, 1, 1>>,
    <<2, 2, 2, 2, 2, 2, 2, 2, 2, 2, 2, 2, 2, 3, 4, 5, 250, 7, 9, 40, 34, 13, 250, 250, 250, 250, 250, 250, 250, 250, 250, 250, 250, 250, 250, 250, 250, 250, 250, 250, 250, 250, 250, 13, 34, 40, 9, 7, 250, 5, 4, 3, 2, 2, 2, 2, 2, 2, 2, 2, 2, 2, 2, 2, 2, 1, 1, 1, 1, 1, 1, 1, 1, 1, 1, 1, 1, 1, 1, 1, 1, 1, 1, 1, 1, 1, 1, 1, 1, 1, 1, 1, 1, 1, 1, 1, 1>>,
    <<1, 2, 2, 2, 2, 2, 2, 2, 2, 2, 2, 2, 2, 3, 4, 4, 4, 5, 6, 7, 8, 10, 107, 250, 250, 250, 250, 250, 250, 250, 250, 250, 250, 250, 250, 250, 250, 250, 250, 250, 250, 250, 107, 10, 8, 7, 6, 5, 4, 4, 4, 3, 2, 2, 2, 2, 2, 2, 2, 2, 2, 2, 2, 2, 1, 1, 1, 1, 1, 1, 1, 1, 1, 1, 1, 1, 1, 1, 1, 1, 1, 1, 1, 1, 1, 1, 1, 1, 1, 1, 1, 1, 1, 1, 1, 1, 1>>,
    <<1, 2, 2, 2, 2, 2, 2, 2, 2, 2, 2, 2, 2, 3, 3, 4, 4, 4, 5, 5, 7, 11, 250, 250, 250, 250, 250, 250, 250, 250, 250, 250, 250, 250, 250, 250, 250, 250, 250, 250, 250, 250, 250, 11, 7, 5, 5, 4, 4, 4, 3, 3, 2, 2, 2, 2, 2, 2, 2, 2, 2, 2, 2, 2, 1, 1, 1, 1, 1, 1, 1, 1, 1, 1, 1, 1, 1, 1, 1, 1, 1, 1, 1, 1, 1, 1, 1, 1, 1, 1, 1, 1, 1, 1, 1, 1, 1>>,
    <<1, 2, 2, 2, 2, 2, 2, 2, 2, 2, 2, 2, 2, 2, 3, 4, 4, 4, 5, 5, 6, 7, 10, 29, 250, 250, 250, 250, 250, 250, 250, 250, 250, 250, 250, 250, 250, 250, 250, 250, 250, 29, 10, 7, 6, 5, 5, 4, 4, 4, 3, 2, 2, 2, 2, 2, 2, 2, 2, 2, 2, 2, 2, 2, 1, 1, 1, 1, 1, 1, 1, 1, 1, 1, 1, 1, 1, 1, 1, 1, 1, 1, 1, 1, 1, 1, 1, 1, 1, 1, 1, 1, 1, 1, 1, 1, 1>>,
    <<1, 2, 2, 2, 2, 2, 2, 2, 2, 2, 2, 2, 2, 2, 3, 3, 4, 4, 4, 5, 5, 6, 17, 250, 250, 250, 250, 250, 250, 250, 250, 250, 250, 250, 250, 250, 250, 250, 250, 250, 250, 250, 17, 6, 5, 5, 4, 4, 4, 3, 3, 2, 2, 2, 2, 2, 2, 2, 2, 2, 2, 2, 2, 2, 1, 1, 1, 1, 1, 1, 1, 1, 1, 1, 1, 1, 1, 1, 1, 1, 1, 1, 1, 1, 1, 1, 1, 1, 1, 1, 1, 1, 1, 1, 1, 1, 1>>,
    <<1, 2, 2, 2, 2, 2, 2, 2, 2, 2, 2, 2, 2, 2, 2, 3, 3, 4, 4, 4, 5, 7, 10, 103, 250, 64, 250, 250, 250, 250, 250, 250, 11, 250, 250, 250, 250, 250, 250, 64, 250, 103, 10, 7, 5, 4, 4, 4, 3, 3, 2, 2, 2, 2, 2, 2, 2, 2, 2, 2, 2, 2, 2, 2, 1, 1, 1, 1, 1, 1, 1, 1, 1, 1, 1, 1, 1, 1, 1, 1, 1, 1, 1, 1, 1, 1, 1, 1, 1, 1, 1, 1, 1, 1, 1, 1, 1>>,
    <<1, 2, 2, 2, 2, 2, 2, 2, 2, 2, 2, 2, 2, 2, 2, 3, 3, 3, 4, 4, 4, 9, 11, 13, 9, 9, 17, 250, 250, 250, 17, 8, 7, 8, 17, 250, 250, 250, 17, 9, 9, 13, 11, 9, 4, 4, 4, 3, 3, 3, 2, 2, 2, 2, 2, 2, 2, 2, 2, 2, 2, 2, 2, 2, 1, 1, 1, 1, 1, 1, 1, 1, 1, 1, 1, 1, 1, 1, 1, 1, 1, 1, 1, 1, 1, 1, 1, 1, 1, 1, 1, 1, 1, 1, 1, 1, 1>>,
    <<1, 2, 2, 2, 2, 2, 2, 2, 2, 2, 2, 2, 2, 2, 2, 2, 3, 3, 3, 3, 4, 4, 5, 6, 6, 7, 38, 11, 13, 8, 6, 6, 6, 6, 6, 8, 13, 11, 38, 7, 6, 6, 5, 4, 4, 3, 3, 3, 3, 2, 2, 2, 2, 2, 2, 2, 2, 2, 2, 2, 2, 2, 2, 2, 1, 1, 1, 1, 1, 1, 1, 1, 1, 1, 1, 1, 1, 1, 1, 1, 1, 1, 1, 1, 1, 1, 1, 1, 1, 1, 1, 1, 1, 1, 1, 1, 1>>,
    <<1, 1, 2, 2, 2, 2, 2, 2, 2, 2, 2, 2, 2, 2, 2, 2, 2, 3, 3, 3, 3, 4, 4, 5, 5, 5, 5, 6, 5, 5, 5, 5, 5, 5, 5, 5, 5, 6, 5, 5, 5, 5, 4, 4, 3, 3, 3, 3, 2, 2, 2, 2, 2, 2, 2, 2, 2, 2, 2, 2, 2, 2, 2, 1, 1, 1, 1, 1, 1, 1, 1, 1, 1, 1, 1, 1, 1, 1, 1, 1, 1, 1, 1, 1, 1, 1, 1, 1, 1, 1, 1, 1, 1, 1, 1, 1, 1>>,
    <<1, 1, 2, 2, 2, 2, 2, 2, 2, 2, 2, 2, 2, 2, 2, 2, 2, 3, 3, 3, 3, 3, 3, 4, 4, 4, 4, 4, 4, 4, 4, 4, 4, 4, 4, 4, 4, 4, 4, 4, 4, 4, 3, 3, 3, 3, 3, 3, 2, 2, 2, 2, 2, 2, 2, 2, 2, 2, 2, 2, 2, 2, 2, 1, 1, 1, 1, 1, 1, 1, 1, 1, 1, 1, 1, 1, 1, 1, 1, 1, 1, 1, 1, 1, 1, 1, 1, 1, 1, 1, 1, 1, 1, 1, 1, 1, 1>>,
    <<1, 1, 2, 2, 2, 2, 2, 2, 2, 2, 2, 2, 2, 2, 2, 2, 2, 2, 3, 3, 3, 3, 3, 3, 3, 3, 4, 4, 4, 4, 4, 4, 4, 4, 4, 4, 4, 4, 4, 3, 3, 3, 3, 3, 3, 3, 3, 2, 2, 2, 2, 2, 2, 2, 2, 2, 2, 2, 2, 2, 2, 2, 2, 1, 1, 1, 1, 1, 1, 1, 1, 1, 1, 1, 1, 1, 1, 1, 1, 1, 1, 1, 1, 1, 1, 1, 1, 1, 1, 1, 1, 1, 1, 1, 1, 1, 1>>,
    <<1, 1, 2, 2, 2, 2, 2, 2, 2, 2, 2, 2, 2, 2, 2, 2, 2, 2, 2, 3, 3, 3, 3, 3, 3, 3, 3, 3, 3, 3, 3, 3, 3, 3, 3, 3, 3, 3, 3, 3, 3, 3, 3, 3, 3, 3, 2, 2, 2, 2, 2, 2, 2, 2, 2, 2, 2, 2, 2, 2, 2, 2, 2, 1, 1, 1, 1, 1, 1, 1, 1, 1, 1, 1, 1, 1, 1, 1, 1, 1, 1, 1, 1, 1, 1, 1, 1, 1, 1, 1, 1, 1, 1, 1, 1, 1, 1>>,
    <<1, 1, 1, 2, 2, 2, 2, 2, 2, 2, 2, 2, 2, 2, 2, 2, 2, 2, 2, 2, 2, 3, 3, 3, 3, 3, 3, 3, 3, 3, 3, 3, 3, 3, 3, 3, 3, 3, 3, 3, 3, 3, 3, 3, 2, 2, 2, 2, 2, 2, 2, 2, 2, 2, 2, 2, 2, 2, 2, 2, 2, 2, 1, 1, 1, 1, 1, 1, 1, 1, 1, 1, 1, 1, 1, 1, 1, 1, 1, 1, 1, 1, 1, 1, 1, 1, 1, 1, 1, 1, 1, 1, 1, 1, 1, 1, 1>>,
    <<1, 1, 1, 2, 2, 2, 2, 2, 2, 2, 2, 2, 2, 2, 2, 2, 2, 2, 2, 2, 2, 2, 3, 3, 3, 3, 3, 3, 3, 3, 3, 3, 3, 3, 3, 3, 3, 3, 3, 3, 3, 3, 3, 2, 2, 2, 2, 2, 2, 2, 2, 2, 2, 2, 2, 2, 2, 2, 2, 2, 2, 2, 1, 1, 1, 1, 1, 1, 1, 1, 1, 1, 1, 1, 1, 1, 1, 1, 1, 1, 1, 1, 1, 1, 1, 1, 1, 1, 1, 1, 1, 1, 1, 1, 1, 1, 1>>,
    <<1, 1, 1, 1, 2, 2, 2, 2, 2, 2, 2, 2, 2, 2, 2, 2, 2, 2, 2, 2, 2, 2, 2, 2, 3, 3, 3, 3, 3, 3, 3, 3, 3, 3, 3, 3, 3, 3, 3, 3, 3, 2, 2, 2, 2, 2, 2, 2, 2, 2, 2, 2, 2, 2, 2, 2, 2, 2, 2, 2, 2, 1, 1, 1, 1, 1, 1, 1, 1, 1, 1, 1, 1, 1, 1, 1, 1, 1, 1, 1, 1, 1, 1, 1, 1, 1, 1, 1, 1, 1, 1, 1, 1, 1, 1, 1, 1>>,
    <<1, 1, 1, 1, 2, 2, 2, 2, 2, 2, 2, 2, 2, 2, 2, 2, 2, 2, 2, 2, 2, 2, 2, 2, 2, 2, 3, 3, 3, 3, 3, 3, 3, 3, 3, 3, 3, 3, 3, 2, 2, 2, 2, 2, 2, 2, 2, 2, 2, 2, 2, 2, 2, 2, 2, 2, 2, 2, 2, 2, 2, 1, 1, 1, 1, 1, 1, 1, 1, 1, 1, 1, 1, 1, 1, 1, 1, 1, 1, 1, 1, 1, 1, 1, 1, 1, 1, 1, 1, 1, 1, 1, 1, 1, 1, 1, 1>>,
    <<1, 1, 1, 1, 1, 2, 2, 2, 2, 2, 2, 2, 2, 2, 2, 2, 2, 2, 2, 2, 2, 2, 2, 2, 2, 2, 2, 2, 2, 2, 2, 2, 3, 2, 2, 2, 2, 2, 2, 2, 2, 2, 2, 2, 2, 2, 2, 2, 2, 2, 2, 2, 2, 2, 2, 2, 2, 2, 2, 2, 1, 1, 1, 1, 1, 1, 1, 1, 1, 1, 1, 1, 1, 1, 1, 1, 1, 1, 1, 1, 1, 1, 1, 1, 1, 1, 1, 1, 1, 1, 1, 1, 1, 1, 1, 1, 1>>,
    <<1, 1, 1, 1, 1, 2, 2, 2, 2, 2, 2, 2, 2, 2, 2, 2, 2, 2, 2, 2, 2, 2, 2, 2, 2, 2, 2, 2, 2, 2, 2, 2, 2, 2, 2, 2, 2, 2, 2, 2, 2, 2, 2, 2, 2, 2, 2, 2, 2, 2, 2, 2, 2, 2, 2, 2, 2, 2, 2, 2, 1, 1, 1, 1, 1, 1, 1, 1, 1, 1, 1, 1, 1, 1, 1, 1, 1, 1, 1, 1, 1, 1, 1, 1, 1, 1, 1, 1, 1, 1, 1, 1, 1, 1, 1, 1, 1>>,
    <<1, 1, 1, 1, 1, 1, 2, 2, 2, 2, 2, 2, 2, 2, 2, 2, 2, 2, 2, 2, 2, 2, 2, 2, 2, 2, 2, 2, 2, 2, 2, 2, 2, 2, 2, 2, 2, 2, 2, 2, 2, 2, 2, 2, 2, 2, 2, 2, 2, 2, 2, 2, 2, 2, 2, 2, 2, 2, 2, 1, 1, 1, 1, 1, 1, 1, 1, 1, 1, 1, 1, 1, 1, 1, 1, 1, 1, 1, 1, 1, 1, 1, 1, 1, 1, 1, 1, 1, 1, 1, 1, 1, 1, 1, 1, 1, 1>>,
    <<1, 1, 1, 1, 1, 1, 1, 2, 2, 2, 2, 2, 2, 2, 2, 2, 2, 2, 2, 2, 2, 2, 2, 2, 2, 2, 2, 2, 2, 2, 2, 2, 2, 2, 2, 2, 2, 2, 2, 2, 2, 2, 2, 2, 2, 2, 2, 2, 2, 2, 2, 2, 2, 2, 2, 2, 2, 2, 1, 1, 1, 1, 1, 1, 1, 1, 1, 1, 1, 1, 1, 1, 1, 1, 1, 1, 1, 1, 1, 1, 1, 1, 1, 1, 1, 1, 1, 1, 1, 1, 1, 1, 1, 1, 1, 1, 1>>,
    <<1, 1, 1, 1, 1, 1, 1, 1, 2, 2, 2, 2, 2, 2, 2, 2, 2, 2, 2, 2, 2, 2, 2, 2, 2, 2, 2, 2, 2, 2, 2, 2, 2, 2, 2, 2, 2, 2, 2, 2, 2, 2, 2, 2, 2, 2, 2, 2, 2, 2, 2, 2, 2, 2, 2, 2, 2, 1, 1, 1, 1, 1, 1, 1, 1, 1, 1, 1, 1, 1, 1, 1, 1, 1, 1, 1, 1, 1, 1, 1, 1, 1, 1, 1, 1, 1, 1, 1, 1, 1, 1, 1, 1, 1, 1, 1, 1>>,
    <<1, 1, 1, 1, 1, 1, 1, 1, 2, 2, 2, 2, 2, 2, 2, 2, 2, 2, 2, 2, 2, 2, 2, 2, 2, 2, 2, 2, 2, 2, 2, 2, 2, 2, 2, 2, 2, 2, 2, 2, 2, 2, 2, 2, 2, 2, 2, 2, 2, 2, 2, 2, 2, 2, 2, 2, 2, 1, 1, 1, 1, 1, 1, 1, 1, 1, 1, 1, 1, 1, 1, 1, 1, 1, 1, 1, 1, 1, 1, 1, 1, 1, 1, 1, 1, 1, 1, 1, 1, 1, 1, 1, 1, 1, 1, 1, 1>>,
    <<1, 1, 1, 1, 1, 1, 1, 1, 1, 2, 2, 2, 2, 2, 2, 2, 2, 2, 2, 2, 2, 2, 2, 2, 2, 2, 2, 2, 2, 2, 2, 2, 2, 2, 2, 2, 2, 2, 2, 2, 2, 2, 2, 2, 2, 2, 2, 2, 2, 2, 2, 2, 2, 2, 2, 2, 1, 1, 1, 1, 1, 1, 1, 1, 1, 1, 1, 1, 1, 1, 1, 1, 1, 1, 1, 1, 1, 1, 1, 1, 1, 1, 1, 1, 1, 1, 1, 1, 1, 1, 1, 1, 1, 1, 1, 1, 1>>,
    <<1, 1, 1, 1, 1, 1, 1, 1, 1, 1, 2, 2, 2, 2, 2, 2, 2, 2, 2, 2, 2, 2, 2, 2, 2, 2, 2, 2, 2, 2, 2, 2, 2, 2, 2, 2, 2, 2, 2, 2, 2, 2, 2, 2, 2, 2, 2, 2, 2, 2, 2, 2, 2, 2, 2, 1, 1, 1, 1, 1, 1, 1, 1, 1, 1, 1, 1, 1, 1, 1, 1, 1, 1, 1, 1, 1, 1, 1, 1, 1, 1, 1, 1, 1, 1, 1, 1, 1, 1, 1, 1, 1, 1, 1, 1, 1, 1>>,
    <<1, 1, 1, 1, 1, 1, 1, 1, 1, 1, 1, 2, 2, 2, 2, 2, 2, 2, 2, 2, 2, 2, 2, 2, 2, 2, 2, 2, 2, 2, 2, 2, 2, 2, 2, 2, 2, 2, 2, 2, 2, 2, 2, 2, 2, 2, 2, 2, 2, 2, 2, 2, 2, 2, 1, 1, 1, 1, 1, 1, 1, 1, 1, 1, 1, 1, 1, 1, 1, 1, 1, 1, 1, 1, 1, 1, 1, 1, 1, 1, 1, 1, 1, 1, 1, 1, 1, 1, 1, 1, 1, 1, 1, 1, 1, 1, 1>>,
    <<1, 1, 1, 1, 1, 1, 1, 1, 1, 1, 1, 1, 1, 2, 2, 2, 2, 2, 2, 2, 2, 2, 2, 2, 2, 2, 2, 2, 2, 2, 2, 2, 2, 2, 2, 2, 2, 2, 2, 2, 2, 2, 2, 2, 2, 2, 2, 2, 2, 2, 2, 2, 1, 1, 1, 1, 1, 1, 1, 1, 1, 1, 1, 1, 1, 1, 1, 1, 1, 1, 1, 1, 1, 1, 1, 1, 1, 1, 1, 1, 1, 1, 1, 1, 1, 1, 1, 1, 1, 1, 1, 1, 1, 1, 1, 1, 1>>,
    <<1, 1, 1, 1, 1, 1, 1, 1, 1, 1, 1, 1, 1, 1, 2, 2, 2, 2, 2, 2, 2, 2, 2, 2, 2, 2, 2, 2, 2, 2, 2, 2, 2, 2, 2, 2, 2, 2, 2, 2, 2, 2, 2, 2, 2, 2, 2, 2, 2, 2, 2, 1, 1, 1, 1, 1, 1, 1, 1, 1, 1, 1, 1, 1, 1, 1, 1, 1, 1, 1, 1, 1, 1, 1, 1, 1, 1, 1, 1, 1, 1, 1, 1, 1, 1, 1, 1, 1, 1, 1, 1, 1, 1, 1, 1, 1, 1>>,
    <<1, 1, 1, 1, 1, 1, 1, 1, 1, 1, 1, 1, 1, 1, 1, 2, 2, 2, 2, 2, 2, 2, 2, 2, 2, 2, 2, 2, 2, 2, 2, 2, 2, 2, 2, 2, 2, 2, 2, 2, 2, 2, 2, 2, 2, 2, 2, 2, 2, 2, 1, 1, 1, 1, 1, 1, 1, 1, 1, 1, 1, 1, 1, 1, 1, 1, 1, 1, 1, 1, 1, 1, 1, 1, 1, 1, 1, 1, 1, 1, 1, 1, 1, 1, 1, 1, 1, 1, 1, 1, 1, 1, 1, 1, 1, 1, 1>>,
    <<1, 1, 1, 1, 1, 1, 1, 1, 1, 1, 1, 1, 1, 1, 1, 1, 1, 2, 2, 2, 2, 2, 2, 2, 2, 2, 2, 2, 2, 2, 2, 2, 2, 2, 2, 2, 2, 2, 2, 2, 2, 2, 2, 2, 2, 2, 2, 2, 1, 1, 1, 1, 1, 1, 1, 1, 1, 1, 1, 1, 1, 1, 1, 1, 1, 1, 1, 1, 1, 1, 1, 1, 1, 1, 1, 1, 1, 1, 1, 1, 1, 1, 1, 1, 1, 1, 1, 1, 1, 1, 1, 1, 1, 1, 1, 1, 1>>,
    <<1, 1, 1, 1, 1, 1, 1, 1, 1, 1, 1, 1, 1, 1, 1, 1, 1, 1, 1, 2, 2, 2, 2, 2, 2, 2, 2, 2, 2, 2, 2, 2, 2, 2, 2, 2, 2, 2, 2, 2, 2, 2, 2, 2, 2, 2, 1, 1, 1, 1, 1, 1, 1, 1, 1, 1, 1, 1, 1, 1, 1, 1, 1, 1, 1, 1, 1, 1, 1, 1, 1, 1, 1, 1, 1, 1, 1, 1, 1, 1, 1, 1, 1, 1, 1, 1, 1, 1, 1, 1, 1, 1, 1, 1, 1, 1, 1>>,
    <<1, 1, 1, 1, 1, 1, 1, 1, 1, 1, 1, 1, 1, 1, 1, 1, 1, 1, 1, 1, 1, 2, 2, 2, 2, 2, 2, 2, 2, 2, 2, 2, 2, 2, 2, 2, 2, 2, 2, 2, 2, 2, 2, 2, 1, 1, 1, 1, 1, 1, 1, 1, 1, 1, 1, 1, 1, 1, 1, 1, 1, 1, 1, 1, 1, 1, 1, 1, 1, 1, 1, 1, 1, 1, 1, 1, 1, 1, 1, 1, 1, 1, 1, 1, 1, 1, 1, 1, 1, 1, 1, 1, 1, 1, 1, 1, 1>>,
    <<1, 1, 1, 1, 1, 1, 1, 1, 1, 1, 1, 1, 1, 1, 1, 1, 1, 1, 1, 1, 1, 1, 1, 1, 1, 2, 2, 2, 2, 2, 2, 2, 2, 2, 2, 2, 2, 2, 2, 2, 1, 1, 1, 1, 1, 1, 1, 1, 1, 1, 1, 1, 1, 1, 1, 1, 1, 1, 1, 1, 1, 1, 1, 1, 1, 1, 1, 1, 1, 1, 1, 1, 1, 1, 1, 1, 1, 1, 1, 1, 1, 1, 1, 1, 1, 1, 1, 1, 1, 1, 1, 1, 1, 1, 1, 1, 1>>,
    <<1, 1, 1, 1, 1, 1, 1, 1, 1, 1, 1, 1, 1, 1, 1, 1, 1, 1, 1, 1, 1, 1, 1, 1, 1, 1, 1, 1, 1, 1, 1, 1, 2, 1, 1, 1, 1, 1, 1, 1, 1, 1, 1, 1, 1, 1, 1, 1, 1, 1, 1, 1, 1, 1, 1, 1, 1, 1, 1, 1, 1, 1, 1, 1, 1, 1, 1, 1, 1, 1, 1, 1, 1, 1, 1, 1, 1, 1, 1, 1, 1, 1, 1, 1, 1, 1, 1, 1, 1, 1, 1, 1, 1, 1, 1, 1, 1>>,
    <<1, 1, 1, 1, 1, 1, 1, 1, 1, 1, 1, 1, 1, 1, 1, 1, 1, 1, 1, 1, 1, 1, 1, 1, 1, 1, 1, 1, 1, 1, 1, 1, 1, 1, 1, 1, 1, 1, 1, 1, 1, 1, 1, 1, 1, 1, 1, 1, 1, 1, 1, 1, 1, 1, 1, 1, 1, 1, 1, 1, 1, 1, 1, 1, 1, 1, 1, 1, 1, 1, 1, 1, 1, 1, 1, 1, 1, 1, 1, 1, 1, 1, 1, 1, 1, 1, 1, 1, 1, 1, 1, 1, 1, 1, 1, 1, 1>>,
    <<1, 1, 1, 1, 1, 1, 1, 1, 1, 1, 1, 1, 1, 1, 1, 1, 1, 1, 1, 1, 1, 1, 1, 1, 1, 1, 1, 1, 1, 1, 1, 1, 1, 1, 1, 1, 1, 1, 1, 1, 1, 1, 1, 1, 1, 1, 1, 1, 1, 1, 1, 1, 1, 1, 1, 1, 1, 1, 1, 1, 1, 1, 1, 1, 1, 1, 1, 1, 1, 1, 1, 1, 1, 1, 1, 1, 1, 1, 1, 1, 1, 1, 1, 1, 1, 1, 1, 1, 1, 1, 1, 1, 1, 1, 1, 1, 1>>,
    <<1, 1, 1, 1, 1, 1, 1, 1, 1, 1, 1, 1, 1, 1, 1, 1, 1, 1, 1, 1, 1, 1, 1, 1, 1, 1, 1, 1, 1, 1, 1, 1, 1, 1, 1, 1, 1, 1, 1, 1, 1, 1, 1, 1, 1, 1, 1, 1, 1, 1, 1, 1, 1, 1, 1, 1, 1, 1, 1, 1, 1, 1, 1, 1, 1, 1, 1, 1, 1, 1, 1, 1, 1, 1, 1, 1, 1, 1, 1, 1, 1, 1, 1, 1, 1, 1, 1, 1, 1, 1, 1, 1, 1, 1, 1, 1, 1>>,
    <<1, 1, 1, 1, 1, 1, 1, 1, 1, 1, 1, 1, 1, 1, 1, 1, 1, 1, 1, 1, 1, 1, 1, 1, 1, 1, 1, 1, 1, 1, 1, 1, 1, 1, 1, 1, 1, 1, 1, 1, 1, 1, 1, 1, 1, 1, 1, 1, 1, 1, 1, 1, 1, 1, 1, 1, 1, 1, 1, 1, 1, 1, 1, 1, 1, 1, 1, 1, 1, 1, 1, 1, 1, 1, 1, 1, 1, 1, 1, 1, 1, 1, 1, 1, 1, 1, 1, 1, 1, 1, 1, 1, 1, 1, 1, 1, 1>>,
    <<1, 1, 1, 1, 1, 1, 1, 1, 1, 1, 1, 1, 1, 1, 1, 1, 1, 1, 1, 1, 1, 1, 1, 1, 1, 1, 1, 1, 1, 1, 1, 1, 1, 1, 1, 1, 1, 1, 1, 1, 1, 1, 1, 1, 1, 1, 1, 1, 1, 1, 1, 1, 1, 1, 1, 1, 1, 1, 1, 1, 1, 1, 1, 1, 1, 1, 1, 1, 1, 1, 1, 1, 1, 1, 1, 1, 1, 1, 1, 1, 1, 1, 1, 1, 1, 1, 1, 1, 1, 1, 1, 1, 1, 1, 1, 1, 1>>,
    <<1, 1, 1, 1, 1, 1, 1, 1, 1, 1, 1, 1, 1, 1, 1, 1, 1, 1, 1, 1, 1, 1, 1, 1, 1, 1, 1, 1, 1, 1, 1, 1, 1, 1, 1, 1, 1, 1, 1, 1, 1, 1, 1, 1, 1, 1, 1, 1, 1, 1, 1, 1, 1, 1, 1, 1, 1, 1, 1, 1, 1, 1, 1, 1, 1, 1, 1, 1, 1, 1, 1, 1, 1, 1, 1, 1, 1, 1, 1, 1, 1, 1, 1, 1, 1, 1, 1, 1, 1, 1, 1, 1, 1, 1, 1, 1, 1>>,
    <<1, 1, 1, 1, 1, 1, 1, 1, 1, 1, 1, 1, 1, 1, 1, 1, 1, 1, 1, 1, 1, 1, 1, 1, 1, 1, 1, 1, 1, 1, 1, 1, 1, 1, 1, 1, 1, 1, 1, 1, 1, 1, 1, 1, 1, 1, 1, 1, 1, 1, 1, 1, 1, 1, 1, 1, 1, 1, 1, 1, 1, 1, 1, 1, 1, 1, 1, 1, 1, 1, 1, 1, 1, 1, 1, 1, 1, 1, 1, 1, 1, 1, 1, 1, 1, 1, 1, 1, 1, 1, 1, 1, 1, 1, 1, 1, 1>>,
    <<1, 1, 1, 1, 1, 1, 1, 1, 1, 1, 1, 1, 1, 1, 1, 1, 1, 1, 1, 1, 1, 1, 1, 1, 1, 1, 1, 1, 1, 1, 1, 1, 1, 1, 1, 1, 1, 1, 1, 1, 1, 1, 1, 1, 1, 1, 1, 1, 1, 1, 1, 1, 1, 1, 1, 1, 1, 1, 1, 1, 1, 1, 1, 1, 1, 1, 1, 1, 1, 1, 1, 1, 1, 1, 1, 1, 1, 1, 1, 1, 1, 1, 1, 1, 1, 1, 1, 1, 1, 1, 1, 1, 1, 1, 1, 1, 1>>,
    <<1, 1, 1, 1, 1, 1, 1, 1, 1, 1, 1, 1, 1, 1, 1, 1, 1, 1, 1, 1, 1, 1, 1, 1, 1, 1, 1, 1, 1, 1, 1, 1, 1, 1, 1, 1, 1, 1, 1, 1, 1, 1, 1, 1, 1, 1, 1, 1, 1, 1, 1, 1, 1, 1, 1, 1, 1, 1, 1, 1, 1, 1, 1, 1, 1, 1, 1, 1, 1, 1, 1, 1, 1, 1, 1, 1, 1, 1, 1, 1, 1, 1, 1, 1, 1, 1, 1, 1, 1, 1, 1, 1, 1, 1, 1, 1, 1>>,
    <<1, 1, 1, 1, 1, 1, 1, 1, 1, 1, 1, 1, 1, 1, 1, 1, 1, 1, 1, 1, 1, 1, 1, 1, 1, 1, 1, 1, 1, 1, 1, 1, 1, 1, 1, 1, 1, 1, 1, 1, 1, 1, 1, 1, 1, 1, 1, 1, 1, 1, 1, 1, 1, 1, 1, 1, 1, 1, 1, 1, 1, 1, 1, 1, 1, 1, 1, 1, 1, 1, 1, 1, 1, 1, 1, 1, 1, 1, 1, 1, 1, 1, 1, 1, 1, 1, 1, 1, 1, 1, 1, 1, 1, 1, 1, 1, 1>>,
    <<1, 1, 1, 1, 1, 1, 1, 1, 1, 1, 1, 1, 1, 1, 1, 1, 1, 1, 1, 1, 1, 1, 1, 1, 1, 1, 1, 1, 1, 1, 1, 1, 1, 1, 1, 1, 1, 1, 1, 1, 1, 1, 1, 1, 1, 1, 1, 1, 1, 1, 1, 1, 1, 1, 1, 1, 1, 1, 1, 1, 1, 1, 1, 1, 1, 1, 1, 1, 1, 1, 1, 1, 1, 1, 1, 1, 1, 1, 1, 1, 1, 1, 1, 1, 1, 1, 1, 1, 1, 1, 1, 1, 1, 1, 1, 1, 1>>,
    <<1, 1, 1, 1, 1, 1, 1, 1, 1, 1, 1, 1, 1, 1, 1, 1, 1, 1, 1, 1, 1, 1, 1, 1, 1, 1, 1, 1, 1, 1, 1, 1, 1, 1, 1, 1, 1, 1, 1, 1, 1, 1, 1, 1, 1, 1, 1, 1, 1, 1, 1, 1, 1, 1, 1, 1, 1, 1, 1, 1, 1, 1, 1, 1, 1, 1, 1, 1, 1, 1, 1, 1, 1, 1, 1, 1, 1, 1, 1, 1, 1, 1, 1, 1, 1, 1, 1, 1, 1, 1, 1, 1, 1, 1, 1, 1, 1>>,
    <<1, 1, 1, 1, 1, 1, 1, 1, 1, 1, 1, 1, 1, 1, 1, 1, 1, 1, 1, 1, 1, 1, 1, 1, 1, 1, 1, 1, 1, 1, 1, 1, 1, 1, 1, 1, 1, 1, 1, 1, 1, 1, 1, 1, 1, 1, 1, 1, 1, 1, 1, 1, 1, 1, 1, 1, 1, 1, 1, 1, 1, 1, 1, 1, 1, 1, 1, 1, 1, 1, 1, 1, 1, 1, 1, 1, 1, 1, 1, 1, 1, 1, 1, 1, 1, 1, 1, 1, 1, 1, 1, 1, 1, 1, 1, 1, 1>>,
    <<1, 1, 1, 1, 1, 1, 1, 1, 1, 1, 1, 1, 1, 1, 1, 1, 1, 1, 1, 1, 1, 1, 1, 1, 1, 1, 1, 1, 1, 1, 1, 1, 1, 1, 1, 1, 1, 1, 1, 1, 1, 1, 1, 1, 1, 1, 1, 1, 1, 1, 1, 1, 1, 1, 1, 1, 1, 1, 1, 1, 1, 1, 1, 1, 1, 1, 1, 1, 1, 1, 1, 1, 1, 1, 1, 1, 1, 1, 1, 1, 1, 1, 1, 1, 1, 1, 1, 1, 1, 1, 1, 1, 1, 1, 1, 1, 1>>,
    <<1, 1, 1, 1, 1, 1, 1, 1, 1, 1, 1, 1, 1, 1, 1, 1, 1, 1, 1, 1, 1, 1, 1, 1, 1, 1, 1, 1, 1, 1, 1, 1, 1, 1, 1, 1, 1, 1, 1, 1, 1, 1, 1, 1, 1, 1, 1, 1, 1, 1, 1, 1, 1, 1, 1, 1, 1, 1, 1, 1, 1, 1, 1, 1, 1, 1, 1, 1, 1, 1, 1, 1, 1, 1, 1, 1, 1, 1, 1, 1, 1, 1, 1, 1, 1, 1, 1, 1, 1, 1, 1, 1, 1, 1, 1, 1, 1>>,
    <<1, 1, 1, 1, 1, 1, 1, 1, 1, 1, 1, 1, 1, 1, 1, 1, 1, 1, 1, 1, 1, 1, 1, 1, 1, 1, 1, 1, 1, 1, 1, 1, 1, 1, 1, 1, 1, 1, 1, 1, 1, 1, 1, 1, 1, 1, 1, 1, 1, 1, 1, 1, 1, 1, 1, 1, 1, 1, 1, 1, 1, 1, 1, 1, 1, 1, 1, 1, 1, 1, 1, 1, 1, 1, 1, 1, 1, 1, 1, 1, 1, 1, 1, 1, 1, 1, 1, 1, 1, 1, 1, 1, 1, 1, 1, 1, 1>>,
    <<1, 1, 1, 1, 1, 1, 1, 1, 1, 1, 1, 1, 1, 1, 1, 1, 1, 1, 1, 1, 1, 1, 1, 1, 1, 1, 1, 1, 1, 1, 1, 1, 1, 1, 1, 1, 1, 1, 1, 1, 1, 1, 1, 1, 1, 1, 1, 1, 1, 1, 1, 1, 1, 1, 1, 1, 1, 1, 1, 1, 1, 1, 1, 1, 1, 1, 1, 1, 1, 1, 1, 1, 1, 1, 1, 1, 1, 1, 1, 1, 1, 1, 1, 1, 1, 1, 1, 1, 1, 1, 1, 1, 1, 1, 1, 1, 1>>,
    <<1, 1, 1, 1, 1, 1, 1, 1, 1, 1, 1, 1, 1, 1, 1, 1, 1, 1, 1, 1, 1, 1, 1, 1, 1, 1, 1, 1, 1, 1, 1, 1, 1, 1, 1, 1, 1, 1, 1, 1, 1, 1, 1, 1, 1, 1, 1, 1, 1, 1, 1, 1, 1, 1, 1, 1, 1, 1, 1, 1, 1, 1, 1, 1, 1, 1, 1, 1, 1, 1, 1, 1, 1, 1, 1, 1, 1, 1, 1, 1, 1, 1, 1, 1, 1, 1, 1, 1, 1, 1, 1, 1, 1, 1, 1, 1, 1>>,
    <<1, 1, 1, 1, 1, 1, 1, 1, 1, 1, 1, 1, 1, 1, 1, 1, 1, 1, 1, 1, 1, 1, 1, 1, 1, 1, 1, 1, 1, 1, 1, 1, 1, 1, 1, 1, 1, 1, 1, 1, 1, 1, 1, 1, 1, 1, 1, 1, 1, 1, 1, 1, 1, 1, 1, 1, 1, 1, 1, 1, 1, 1, 1, 1, 1, 1, 1, 1, 1, 1, 1, 1, 1, 1, 1, 1, 1, 1, 1, 1, 1, 1, 1, 1, 1, 1, 1, 1, 1, 1, 1, 1, 1, 1, 1, 1, 1>>,
    <<1, 1, 1, 1, 1, 1, 1, 1, 1, 1, 1, 1, 1, 1, 1, 1, 1, 1, 1, 1, 1, 1, 1, 1, 1, 1, 1, 1, 1, 1, 1, 1, 1, 1, 1, 1, 1, 1, 1, 1, 1, 1, 1, 1, 1, 1, 1, 1, 1, 1, 1, 1, 1, 1, 1, 1, 1, 1, 1, 1, 1, 1, 1, 1, 1, 1, 1, 1, 1, 1, 1, 1, 1, 1, 1, 1, 1, 1, 1, 1, 1, 1, 1, 1, 1, 1, 1, 1, 1, 1, 1, 1, 1, 1, 1, 1, 1>>,
    <<1, 1, 1, 1, 1, 1, 1, 1, 1, 1, 1, 1, 1, 1, 1, 1, 1, 1, 1, 1, 1, 1, 1, 1, 1, 1, 1, 1, 1, 1, 1, 1, 1, 1, 1, 1, 1, 1, 1, 1, 1, 1, 1, 1, 1, 1, 1, 1, 1, 1, 1, 1, 1, 1, 1, 1, 1, 1, 1, 1, 1, 1, 1, 1, 1, 1, 1, 1, 1, 1, 1, 1, 1, 1, 1, 1, 1, 1, 1, 1, 1, 1, 1, 1, 1, 1, 1, 1, 1, 1, 1, 1, 1, 1, 1, 1, 1>>,
    <<1, 1, 1, 1, 1, 1, 1, 1, 1, 1, 1, 1, 1, 1, 1, 1, 1, 1, 1, 1, 1, 1, 1, 1, 1, 1, 1, 1, 1, 1, 1, 1, 1, 1, 1, 1, 1, 1, 1, 1, 1, 1, 1, 1, 1, 1, 1, 1, 1, 1, 1, 1, 1, 1, 1, 1, 1, 1, 1, 1, 1, 1, 1, 1, 1, 1, 1, 1, 1, 1, 1, 1, 1, 1, 1, 1, 1, 1, 1, 1, 1, 1, 1, 1, 1, 1, 1, 1, 1, 1, 1, 1, 1, 1, 1, 1, 1>>,
    <<1, 1, 1, 1, 1, 1, 1, 1, 1, 1, 1, 1, 1, 1, 1, 1, 1, 1, 1, 1, 1, 1, 1, 1, 1, 1, 1, 1, 1, 1, 1, 1, 1, 1, 1, 1, 1, 1, 1, 1, 1, 1, 1, 1, 1, 1, 1, 1, 1, 1, 1, 1, 1, 1, 1, 1, 1, 1, 1, 1, 1, 1, 1, 1, 1, 1, 1, 1, 1, 1, 1, 1, 1, 1, 1, 1, 1, 1, 1, 1, 1, 1, 1, 1, 1, 1, 1, 1, 1, 1, 1, 1, 1, 1, 1, 1, 1>>,
    <<1, 1, 1, 1, 1, 1, 1, 1, 1, 1, 1, 1, 1, 1, 1, 1, 1, 1, 1, 1, 1, 1, 1, 1, 1, 1, 1, 1, 1, 1, 1, 1, 1, 1, 1, 1, 1, 1, 1, 1, 1, 1, 1, 1, 1, 1, 1, 1, 1, 1, 1, 1, 1, 1, 1, 1, 1, 1, 1, 1, 1, 1, 1, 1, 1, 1, 1, 1, 1, 1, 1, 1, 1, 1, 1, 1, 1, 1, 1, 1, 1, 1, 1, 1, 1, 1, 1, 1, 1, 1, 1, 1, 1, 1, 1, 1, 1>>,
    <<1, 1, 1, 1, 1, 1, 1, 1, 1, 1, 1, 1, 1, 1, 1, 1, 1, 1, 1, 1, 1, 1, 1, 1, 1, 1, 1, 1, 1, 1, 1, 1, 1, 1, 1, 1, 1, 1, 1, 1, 1, 1, 1, 1, 1, 1, 1, 1, 1, 1, 1, 1, 1, 1, 1, 1, 1, 1, 1, 1, 1, 1, 1, 1, 1, 1, 1, 1, 1, 1, 1, 1, 1, 1, 1, 1, 1, 1, 1, 1, 1, 1, 1, 1, 1, 1, 1, 1, 1, 1, 1, 1, 1, 1, 1, 1, 1>>,
    <<1, 1, 1, 1, 1, 1, 1, 1, 1, 1, 1, 1, 1, 1, 1, 1, 1, 1, 1, 1, 1, 1, 1, 1, 1, 1, 1, 1, 1, 1, 1, 1, 1, 1, 1, 1, 1, 1, 1, 1, 1, 1, 1, 1, 1, 1, 1, 1, 1, 1, 1, 1, 1, 1, 1, 1, 1, 1, 1, 1, 1, 1, 1, 1, 1, 1, 1, 1, 1, 1, 1, 1, 1, 1, 1, 1, 1, 1, 1, 1, 1, 1, 1, 1, 1, 1, 1, 1, 1, 1, 1, 1, 1, 1, 1, 1, 1>>,
    <<1, 1, 1, 1, 1, 1, 1, 1, 1, 1, 1, 1, 1, 1, 1, 1, 1, 1, 1, 1, 1, 1, 1, 1, 1, 1, 1, 1, 1, 1, 1, 1, 1, 1, 1, 1, 1, 1, 1, 1, 1, 1, 1, 1, 1, 1, 1, 1, 1, 1, 1, 1, 1, 1, 1, 1, 1, 1, 1, 1, 1, 1, 1, 1, 1, 1, 1, 1, 1, 1, 1, 1, 1, 1, 1, 1, 1, 1, 1, 1, 1, 1, 1, 1, 1, 1, 1, 1, 1, 1, 1, 1, 1, 1, 1, 1, 1>>,
    <<1, 1, 1, 1, 1, 1, 1, 1, 1, 1, 1, 1, 1, 1, 1, 1, 1, 1, 1, 1, 1, 1, 1, 1, 1, 1, 1, 1, 1, 1, 1, 1, 1, 1, 1, 1, 1, 1, 1, 1, 1, 1, 1, 1, 1, 1, 1, 1, 1, 1, 1, 1, 1, 1, 1, 1, 1, 1, 1, 1, 1, 1, 1, 1, 1, 1, 1, 1, 1, 1, 1, 1, 1, 1, 1, 1, 1, 1, 1, 1, 1, 1, 1, 1, 1, 1, 1, 1, 1, 1, 1, 1, 1, 1, 1, 1, 1>>,
    <<1, 1, 1, 1, 1, 1, 1, 1, 1, 1, 1, 1, 1, 1, 1, 1, 1, 1, 1, 1, 1, 1, 1, 1, 1, 1, 1, 1, 1, 1, 1, 1, 1, 1, 1, 1, 1, 1, 1, 1, 1, 1, 1, 1, 1, 1, 1, 1, 1, 1, 1, 1, 1, 1, 1, 1, 1, 1, 1, 1, 1, 1, 1, 1, 1, 1, 1, 1, 1, 1, 1, 1, 1, 1, 1, 1, 1, 1, 1, 1, 1, 1, 1, 1, 1, 1, 1, 1, 1, 1, 1, 1, 1, 1, 1, 1, 1>>,
    <<1, 1, 1, 1, 1, 1, 1, 1, 1, 1, 1, 1, 1, 1, 1, 1, 1, 1, 1, 1, 1, 1, 1, 1, 1, 1, 1, 1, 1, 1, 1, 1, 1, 1, 1, 1, 1, 1, 1, 1, 1, 1, 1, 1, 1, 1, 1, 1, 1, 1, 1, 1, 1, 1, 1, 1, 1, 1, 1, 1, 1, 1, 1, 1, 1, 1, 1, 1, 1, 1, 1, 1, 1, 1, 1, 1, 1, 1, 1, 1, 1, 1, 1, 1, 1, 1, 1, 1, 1, 1, 1, 1, 1, 1, 1, 1, 1>>,
    <<1, 1, 1, 1, 1, 1, 1, 1, 1, 1, 1, 1, 1, 1, 1, 1, 1, 1, 1, 1, 1, 1, 1, 1, 1, 1, 1, 1, 1, 1, 1, 1, 1, 1, 1, 1, 1, 1, 1, 1, 1, 1, 1, 1, 1, 1, 1, 1, 1, 1, 1, 1, 1, 1, 1, 1, 1, 1, 1, 1, 1, 1, 1, 1, 1, 1, 1, 1, 1, 1, 1, 1, 1, 1, 1, 1, 1, 1, 1, 1, 1, 1, 1, 1, 1, 1, 1, 1, 1, 1, 1, 1, 1, 1, 1, 1, 1>>,
    <<1, 1, 1, 1, 1, 1, 1, 1, 1, 1, 1, 1, 1, 1, 1, 1, 1, 1, 1, 1, 1, 1, 1, 1, 1, 1, 1, 1, 1, 1, 1, 1, 1, 1, 1, 1, 1, 1, 1, 1, 1, 1, 1, 1, 1, 1, 1, 1, 1, 1, 1, 1, 1, 1, 1, 1, 1, 1, 1, 1, 1, 1, 1, 1, 1, 1, 1, 1, 1, 1, 1, 1, 1, 1, 1, 1, 1, 1, 1, 1, 1, 1, 1, 1, 1, 1, 1, 1, 1, 1, 1, 1, 1, 1, 1, 1, 1>>,
    <<1, 1, 1, 1, 1, 1, 1, 1, 1, 1, 1, 1, 1, 1, 1, 1, 1, 1, 1, 1, 1, 1, 1, 1, 1, 1, 1, 1, 1, 1, 1, 1, 1, 1, 1, 1, 1, 1, 1, 1, 1, 1, 1, 1, 1, 1, 1, 1, 1, 1, 1, 1, 1, 1, 1, 1, 1, 1, 1, 1, 1, 1, 1, 1, 1, 1, 1, 1, 1, 1, 1, 1, 1, 1, 1, 1, 1, 1, 1, 1, 1, 1, 1, 1, 1, 1, 1, 1, 1, 1, 1, 1, 1, 1, 1, 1, 1>>,
    <<1, 1, 1, 1, 1, 1, 1, 1, 1, 1, 1, 1, 1, 1, 1, 1, 1, 1, 1, 1, 1, 1, 1, 1, 1, 1, 1, 1, 1, 1, 1, 1, 1, 1, 1, 1, 1, 1, 1, 1, 1, 1, 1, 1, 1, 1, 1, 1, 1, 1, 1, 1, 1, 1, 1, 1, 1, 1, 1, 1, 1, 1, 1, 1, 1, 1, 1, 1, 1, 1, 1, 1, 1, 1, 1, 1, 1, 1, 1, 1, 1, 1, 1, 1, 1, 1, 1, 1, 1, 1, 1, 1, 1, 1, 1, 1, 1>>,
    <<1, 1, 1, 1, 1, 1, 1, 1, 1, 1, 1, 1, 1, 1, 1, 1, 1, 1, 1, 1, 1, 1, 1, 1, 1, 1, 1, 1, 1, 1, 1, 1, 1, 1, 1, 1, 1, 1, 1, 1, 1, 1, 1, 1, 1, 1, 1, 1, 1, 1, 1, 1, 1, 1, 1, 1, 1, 1, 1, 1, 1, 1, 1, 1, 1, 1, 1, 1, 1, 1, 1, 1, 1, 1, 1, 1, 1, 1, 1, 1, 1, 1, 1, 1, 1, 1, 1, 1, 1, 1, 1, 1, 1, 1, 1, 1, 1>>,
    <<1, 1, 1, 1, 1, 1, 1, 1, 1, 1, 1, 1, 1, 1, 1, 1, 1, 1, 1, 1, 1, 1, 1, 1, 1, 1, 1, 1, 1, 1, 1, 1, 1, 1, 1, 1, 1, 1, 1, 1, 1, 1, 1, 1, 1, 1, 1, 1, 1, 1, 1, 1, 1, 1, 1, 1, 1, 1, 1, 1, 1, 1, 1, 1, 1, 1, 1, 1, 1, 1, 1, 1, 1, 1, 1, 1, 1, 1, 1, 1, 1, 1, 1, 1, 1, 1, 1, 1, 1, 1, 1, 1, 1, 1, 1, 1, 1>>,
    <<1, 1, 1, 1, 1, 1, 1, 1, 1, 1, 1, 1, 1, 1, 1, 1, 1, 1, 1, 1, 1, 1, 1, 1, 1, 1, 1, 1, 1, 1, 1, 1, 1, 1, 1, 1, 1, 1, 1, 1, 1, 1, 1, 1, 1, 1, 1, 1, 1, 1, 1, 1, 1, 1, 1, 1, 1, 1, 1, 1, 1, 1, 1, 1, 1, 1, 1, 1, 1, 1, 1, 1, 1, 1, 1, 1, 1, 1, 1, 1, 1, 1, 1, 1, 1, 1, 1, 1, 1, 1, 1, 1, 1, 1, 1, 1, 1>>,
    <<1, 1, 1, 1, 1, 1, 1, 1, 1, 1, 1, 1, 1, 1, 1, 1, 1, 1, 1, 1, 1, 1, 1, 1, 1, 1, 1, 1, 1, 1, 1, 1, 1, 1, 1, 1, 1, 1, 1, 1, 1, 1, 1, 1, 1, 1, 1, 1, 1, 1, 1, 1, 1, 1, 1, 1, 1, 1, 1, 1, 1, 1, 1, 1, 1, 1, 1, 1, 1, 1, 1, 1, 1, 1, 1, 1, 1, 1, 1, 1, 1, 1, 1, 1, 1, 1, 1, 1, 1, 1, 1, 1, 1, 1, 1, 1, 1>>,
    <<1, 1, 1, 1, 1, 1, 1, 1, 1, 1, 1, 1, 1, 1, 1, 1, 1, 1, 1, 1, 1, 1, 1, 1, 1, 1, 1, 1, 1, 1, 1, 1, 1, 1, 1, 1, 1, 1, 1, 1, 1, 1, 1, 1, 1, 1, 1, 1, 1, 1, 1, 1, 1, 1, 1, 1, 1, 1, 1, 1, 1, 1, 1, 1, 1, 1, 1, 1, 1, 1, 1, 1, 1, 1, 1, 1, 1, 1, 1, 1, 1, 1, 1, 1, 1, 1, 1, 1, 1, 1, 1, 1, 1, 1, 1, 1, 1>>,
    <<1, 1, 1, 1, 1, 1, 1, 1, 1, 1, 1, 1, 1, 1, 1, 1, 1, 1, 1, 1, 1, 1, 1, 1, 1, 1, 1, 1, 1, 1, 1, 1, 1, 1, 1, 1, 1, 1, 1, 1, 1, 1, 1, 1, 1, 1, 1, 1, 1, 1, 1, 1, 1, 1, 1, 1, 1, 1, 1, 1, 1, 1, 1, 1, 1, 1, 1, 1, 1, 1, 1, 1, 1, 1, 1, 1, 1, 1, 1, 1, 1, 1, 1, 1, 1, 1, 1, 1, 1, 1, 1, 1, 1, 1, 1, 1, 1>>,
    <<1, 1, 1, 1, 1, 1, 1, 1, 1, 1, 1, 1, 1, 1, 1, 1, 1, 1, 1, 1, 1, 1, 1, 1, 1, 1, 1, 1, 1, 1, 1, 1, 1, 1, 1, 1, 1, 1, 1, 1, 1, 1, 1, 1, 1, 1, 1, 1, 1, 1, 1, 1, 1, 1, 1, 1, 1, 1, 1, 1, 1, 1, 1, 1, 1, 1, 1, 1, 1, 1, 1, 1, 1, 1, 1, 1, 1, 1, 1, 1, 1, 1, 1, 1, 1, 1, 1, 1, 1, 1, 1, 1, 1, 1, 1, 1, 1>>,
    <<1, 1, 1, 1, 1, 1, 1, 1, 1, 1, 1, 1, 1, 1, 1, 1, 1, 1, 1, 1, 1, 1, 1, 1, 1, 1, 1, 1, 1, 1, 1, 1, 1, 1, 1, 1, 1, 1, 1, 1, 1, 1, 1, 1, 1, 1, 1, 1, 1, 1, 1, 1, 1, 1, 1, 1, 1, 1, 1, 1, 1, 1, 1, 1, 1, 1, 1, 1, 1, 1, 1, 1, 1, 1, 1, 1, 1, 1, 1, 1, 1, 1, 1, 1, 1, 1, 1, 1, 1, 1, 1, 1, 1, 1, 1, 1, 1>>,
    <<1, 1, 1, 1, 1, 1, 1, 1, 1, 1, 1, 1, 1, 1, 1, 1, 1, 1, 1, 1, 1, 1, 1, 1, 1, 1, 1, 1, 1, 1, 1, 1, 1, 1, 1, 1, 1, 1, 1, 1, 1, 1, 1, 1, 1, 1, 1, 1, 1, 1, 1, 1, 1, 1, 1, 1, 1, 1, 1, 1, 1, 1, 1, 1, 1, 1, 1, 1, 1, 1, 1, 1, 1, 1, 1, 1, 1, 1, 1, 1, 1, 1, 1, 1, 1, 1, 1, 1, 1, 1, 1, 1, 1, 1, 1, 1, 1>>,
    <<1, 1, 1, 1, 1, 1, 1, 1, 1, 1, 1, 1, 1, 1, 1, 1, 1, 1, 1, 1, 1, 1, 1, 1, 1, 1, 1, 1, 1, 1, 1, 1, 1, 1, 1, 1, 1, 1, 1, 1, 1, 1, 1, 1, 1, 1, 1, 1, 1, 1, 1, 1, 1, 1, 1, 1, 1, 1, 1, 1, 1, 1, 1, 1, 1, 1, 1, 1, 1, 1, 1, 1, 1, 1, 1, 1, 1, 1, 1, 1, 1, 1, 1, 1, 1, 1, 1, 1, 1, 1, 1, 1, 1, 1, 1, 1, 1>>,
    <<1, 1, 1, 1, 1, 1, 1, 1, 1, 1, 1, 1, 1, 1, 1, 1, 1, 1, 1, 1, 1, 1, 1, 1, 1, 1, 1, 1, 1, 1, 1, 1, 1, 1, 1, 1, 1, 1, 1, 1, 1, 1, 1, 1, 1, 1, 1, 1, 1, 1, 1, 1, 1, 1, 1, 1, 1, 1, 1, 1, 1, 1, 1, 1, 1, 1, 1, 1, 1, 1, 1, 1, 1, 1, 1, 1, 1, 1, 1, 1, 1, 1, 1, 1, 1, 1, 1, 1, 1, 1, 1, 1, 1, 1, 1, 1, 1>>,
    <<1, 1, 1, 1, 1, 1, 1, 1, 1, 1, 1, 1, 1, 1, 1, 1, 1, 1, 1, 1, 1, 1, 1, 1, 1, 1, 1, 1, 1, 1, 1, 1, 1, 1, 1, 1, 1, 1, 1, 1, 1, 1, 1, 1, 1, 1, 1, 1, 1, 1, 1, 1, 1, 1, 1, 1, 1, 1, 1, 1, 1, 1, 1, 1, 1, 1, 1, 1, 1, 1, 1, 1, 1, 1, 1, 1, 1, 1, 1, 1, 1, 1, 1, 1, 1, 1, 1, 1, 1, 1, 1, 1, 1, 1, 1, 1, 1>>,
    <<1, 1, 1, 1, 1, 1, 1, 1, 1, 1, 1, 1, 1, 1, 1, 1, 1, 1, 1, 1, 1, 1, 1, 1, 1, 1, 1, 1, 1, 1, 1, 1, 1, 1, 1, 1, 1, 1, 1, 1, 1, 1, 1, 1, 1, 1, 1, 1, 1, 1, 1, 1, 1, 1, 1, 1, 1, 1, 1, 1, 1, 1, 1, 1, 1, 1, 1, 1, 1, 1, 1, 1, 1, 1, 1, 1, 1, 1, 1, 1, 1, 1, 1, 1, 1, 1, 1, 1, 1, 1, 1, 1, 1, 1, 1, 1, 1>>,
    <<1, 1, 1, 1, 1, 1, 1, 1, 1, 1, 1, 1, 1, 1, 1, 1, 1, 1, 1, 1, 1, 1, 1, 1, 1, 1, 1, 1, 1, 1, 1, 1, 1, 1, 1, 1, 1, 1, 1, 1, 1, 1, 1, 1, 1, 1, 1, 1, 1, 1, 1, 1, 1, 1, 1, 1, 1, 1, 1, 1, 1, 1, 1, 1, 1, 1, 1, 1, 1, 1, 1, 1, 1, 1, 1, 1, 1, 1, 1, 1, 1, 1, 1, 1, 1, 1, 1, 1, 1, 1, 1, 1, 1, 1, 1, 1, 1>>,
    <<1, 1, 1, 1, 1, 1, 1, 1, 1, 1, 1, 1, 1, 1, 1, 1, 1, 1, 1, 1, 1, 1, 1, 1, 1, 1, 1, 1, 1, 1, 1, 1, 1, 1, 1, 1, 1, 1, 1, 1, 1, 1, 1, 1, 1, 1, 1, 1, 1, 1, 1, 1, 1, 1, 1, 1, 1, 1, 1, 1, 1, 1, 1, 1, 1, 1, 1, 1, 1, 1, 1, 1, 1, 1, 1, 1, 1, 1, 1, 1, 1, 1, 1, 1, 1, 1, 1, 1, 1, 1, 1, 1, 1, 1, 1, 1, 1>>,
    <<1, 1, 1, 1, 1, 1, 1, 1, 1, 1, 1, 1, 1, 1, 1, 1, 1, 1, 1, 1, 1, 1, 1, 1, 1, 1, 1, 1, 1, 1, 1, 1, 1, 1, 1, 1, 1, 1, 1, 1, 1, 1, 1, 1, 1, 1, 1, 1, 1, 1, 1, 1, 1, 1, 1, 1, 1, 1, 1, 1, 1, 1, 1, 1, 1, 1, 1, 1, 1, 1, 1, 1, 1, 1, 1, 1, 1, 1, 1, 1, 1, 1, 1, 1, 1, 1, 1, 1, 1, 1, 1, 1, 1, 1, 1, 1, 1>>,
    <<1, 1, 1, 1, 1, 1, 1, 1, 1, 1, 1, 1, 1, 1, 1, 1, 1, 1, 1, 1, 1, 1, 1, 1, 1, 1, 1, 1, 1, 1, 1, 1, 1, 1, 1, 1, 1, 1, 1, 1, 1, 1, 1, 1, 1, 1, 1, 1, 1, 1, 1, 1, 1, 1, 1, 1, 1, 1, 1, 1, 1, 1, 1, 1, 1, 1, 1, 1, 1, 1, 1, 1, 1, 1, 1, 1, 1, 1, 1, 1, 1, 1, 1, 1, 1, 1, 1, 1, 1, 1, 1, 1, 1, 1, 1, 1, 1>>,
    <<1, 1, 1, 1, 1, 1, 1, 1, 1, 1, 1, 1, 1, 1, 1, 1, 1, 1, 1, 1, 1, 1, 1, 1, 1, 1, 1, 1, 1, 1, 1, 1, 1, 1, 1, 1, 1, 1, 1, 1, 1, 1, 1, 1, 1, 1, 1, 1, 1, 1, 1, 1, 1, 1, 1, 1, 1, 1, 1, 1, 1, 1, 1, 1, 1, 1, 1, 1, 1, 1, 1, 1, 1, 1, 1, 1, 1, 1, 1, 1, 1, 1, 1, 1, 1, 1, 1, 1, 1, 1, 1, 1, 1, 1, 1, 1, 1>>,
    <<1, 1, 1, 1, 1, 1, 1, 1, 1, 1, 1, 1, 1, 1, 1, 1, 1, 1, 1, 1, 1, 1, 1, 1, 1, 1, 1, 1, 1, 1, 1, 1, 1, 1, 1, 1, 1, 1, 1, 1, 1, 1, 1, 1, 1, 1, 1, 1, 1, 1, 1, 1, 1, 1, 1, 1, 1, 1, 1, 1, 1, 1, 1, 1, 1, 1, 1, 1, 1, 1, 1, 1, 1, 1, 1, 1, 1, 1, 1, 1, 1, 1, 1, 1, 1, 1, 1, 1, 1, 1, 1, 1, 1, 1, 1, 1, 1>>,
    <<1, 1, 1, 1, 1, 1, 1, 1, 1, 1, 1, 1, 1, 1, 1, 1, 1, 1, 1, 1, 1, 1, 1, 1, 1, 1, 1, 1, 1, 1, 1, 1, 1, 1, 1, 1, 1, 1, 1, 1, 1, 1, 1, 1, 1, 1, 1, 1, 1, 1, 1, 1, 1, 1, 1, 1, 1, 1, 1, 1, 1, 1, 1, 1, 1, 1, 1, 1, 1, 1, 1, 1, 1, 1, 1, 1, 1, 1, 1, 1, 1, 1, 1, 1, 1, 1, 1, 1, 1, 1, 1, 1, 1, 1, 1, 1, 1>>,
    <<1, 1, 1, 1, 1, 1, 1, 1, 1, 1, 1, 1, 1, 1, 1, 1, 1, 1, 1, 1, 1, 1, 1, 1, 1, 1, 1, 1, 1, 1, 1, 1, 1, 1, 1, 1, 1, 1, 1, 1, 1, 1, 1, 1, 1, 1, 1, 1, 1, 1, 1, 1, 1, 1, 1, 1, 1, 1, 1, 1, 1, 1, 1, 1, 1, 1, 1, 1, 1, 1, 1, 1, 1, 1, 1, 1, 1, 1, 1, 1, 1, 1, 1, 1, 1, 1, 1, 1, 1, 1, 1, 1, 1, 1, 1, 1, 1>>,
    <<1, 1, 1, 1, 1, 1, 1, 1, 1, 1, 1, 1, 1, 1, 1, 1, 1, 1, 1, 1, 1, 1, 1, 1, 1, 1, 1, 1, 1, 1, 1, 1, 1, 1, 1, 1, 1, 1, 1, 1, 1, 1, 1, 1, 1, 1, 1, 1, 1, 1, 1, 1, 1, 1, 1, 1, 1, 1, 1, 1, 1, 1, 1, 1, 1, 1, 1, 1, 1, 1, 1, 1, 1, 1, 1, 1, 1, 1, 1, 1, 1, 1, 1, 1, 1, 1, 1, 1, 1, 1, 1, 1, 1, 1, 1, 1, 1>>,
    <<1, 1, 1, 1, 1, 1, 1, 1, 1, 1, 1, 1, 1, 1, 1, 1, 1, 1, 1, 1, 1, 1, 1, 1, 1, 1, 1, 1, 1, 1, 1, 1, 1, 1, 1, 1, 1, 1, 1, 1, 1, 1, 1, 1, 1, 1, 1, 1, 1, 1, 1, 1, 1, 1, 1, 1, 1, 1, 1, 1, 1, 1, 1, 1, 1, 1, 1, 1, 1, 1, 1, 1, 1, 1, 1, 1, 1, 1, 1, 1, 1, 1, 1, 1, 1, 1, 1, 1, 1, 1, 1, 1, 1, 1, 1, 1, 1>>,
    <<1, 1, 1, 1, 1, 1, 1, 1, 1, 1, 1, 1, 1, 1, 1, 1, 1, 1, 1, 1, 1, 1, 1, 1, 1, 1, 1, 1, 1, 1, 1, 1, 1, 1, 1, 1, 1, 1, 1, 1, 1, 1, 1, 1, 1, 1, 1, 1, 1, 1, 1, 1, 1, 1, 1, 1, 1, 1, 1, 1, 1, 1, 1, 1, 1, 1, 1, 1, 1, 1, 1, 1, 1, 1, 1, 1, 1, 1, 1, 1, 1, 1, 1, 1, 1, 1, 1, 1, 1, 1, 1, 1, 1, 1, 1, 1, 1>>,
    <<1, 1, 1, 1, 1, 1, 1, 1, 1, 1, 1, 1, 1, 1, 1, 1, 1, 1, 1, 1, 1, 1, 1, 1, 1, 1, 1, 1, 1, 1, 1, 1, 1, 1, 1, 1, 1, 1, 1, 1, 1, 1, 1, 1, 1, 1, 1, 1, 1, 1, 1, 1, 1, 1, 1, 1, 1, 1, 1, 1, 1, 1, 1, 1, 1, 1, 1, 1, 1, 1, 1, 1, 1, 1, 1, 1, 1, 1, 1, 1, 1, 1, 1, 1, 1, 1, 1, 1, 1, 1, 1, 1, 1, 1, 1, 1, 1>>,
    <<1, 1, 1, 1, 1, 1, 1, 1, 1, 1, 1, 1, 1, 1, 1, 1, 1, 1, 1, 1, 1, 1, 1, 1, 1, 1, 1, 1, 1, 1, 1, 1, 1, 1, 1, 1, 1, 1, 1, 1, 1, 1, 1, 1, 1, 1, 1, 1, 1, 1, 1, 1, 1, 1, 1, 1, 1, 1, 1, 1, 1, 1, 1, 1, 1, 1, 1, 1, 1, 1, 1, 1, 1, 1, 1, 1, 1, 1, 1, 1, 1, 1, 1, 1, 1, 1, 1, 1, 1, 1, 1, 1, 1, 1, 1, 1, 1>>,
    <<1, 1, 1, 1, 1, 1, 1, 1, 1, 1, 1, 1, 1, 1, 1, 1, 1, 1, 1, 1, 1, 1, 1, 1, 1, 1, 1, 1, 1, 1, 1, 1, 1, 1, 1, 1, 1, 1, 1, 1, 1, 1, 1, 1, 1, 1, 1, 1, 1, 1, 1, 1, 1, 1, 1, 1, 1, 1, 1, 1, 1, 1, 1, 1, 1, 1, 1, 1, 1, 1, 1, 1, 1, 1, 1, 1, 1, 1, 1, 1, 1, 1, 1, 1, 1, 1, 1, 1, 1, 1, 1, 1, 1, 1, 1, 1, 1>>,
    <<1, 1, 1, 1, 1, 1, 1, 1, 1, 1, 1, 1, 1, 1, 1, 1, 1, 1, 1, 1, 1, 1, 1, 1, 1, 1, 1, 1, 1, 1, 1, 1, 1, 1, 1, 1, 1, 1, 1, 1, 1, 1, 1, 1, 1, 1, 1, 1, 1, 1, 1, 1, 1, 1, 1, 1, 1, 1, 1, 1, 1, 1, 1, 1, 1, 1, 1, 1, 1, 1, 1, 1, 1, 1, 1, 1, 1, 1, 1, 1, 1, 1, 1, 1, 1, 1, 1, 1, 1, 1, 1, 1, 1, 1, 1, 1, 1>>,
    <<1, 1, 1, 1, 1, 1, 1, 1, 1, 1, 1, 1, 1, 1, 1, 1, 1, 1, 1, 1, 1, 1, 1, 1, 1, 1, 1, 1, 1, 1, 1, 1, 1, 1, 1, 1, 1, 1, 1, 1, 1, 1, 1, 1, 1, 1, 1, 1, 1, 1, 1, 1, 1, 1, 1, 1, 1, 1, 1, 1, 1, 1, 1, 1, 1, 1, 1, 1, 1, 1, 1, 1, 1, 1, 1, 1, 1, 1, 1, 1, 1, 1, 1, 1, 1, 1, 1, 1, 1, 1, 1, 1, 1, 1, 1, 1, 1>>,
    <<1, 1, 1, 1, 1, 1, 1, 1, 1, 1, 1, 1, 1, 1, 1, 1, 1, 1, 1, 1, 1, 1, 1, 1, 1, 1, 1, 1, 1, 1, 1, 1, 1, 1, 1, 1, 1, 1, 1, 1, 1, 1, 1, 1, 1, 1, 1, 1, 1, 1, 1, 1, 1, 1, 1, 1, 1, 1, 1, 1, 1, 1, 1, 1, 1, 1, 1, 1, 1, 1, 1, 1, 1, 1, 1, 1, 1, 1, 1, 1, 1, 1, 1, 1, 1, 1, 1, 1, 1, 1, 1, 1, 1, 1, 1, 1, 1>>,
    <<1, 1, 1, 1, 1, 1, 1, 1, 1, 1, 1, 1, 1, 1, 1, 1, 1, 1, 1, 1, 1, 1, 1, 1, 1, 1, 1, 1, 1, 1, 1, 1, 1, 1, 1, 1, 1, 1, 1, 1, 1, 1, 1, 1, 1, 1, 1, 1, 1, 1, 1, 1, 1, 1, 1, 1, 1, 1, 1, 1, 1, 1, 1, 1, 1, 1, 1, 1, 1, 1, 1, 1, 1, 1, 1, 1, 1, 1, 1, 1, 1, 1, 1, 1, 1, 1, 1, 1, 1, 1, 1, 1, 1, 1, 1, 1, 1>>,
    <<1, 1, 1, 1, 1, 1, 1, 1, 1, 1, 1, 1, 1, 1, 1, 1, 1, 1, 1, 1, 1, 1, 1, 1, 1, 1, 1, 1, 1, 1, 1, 1, 1, 1, 1, 1, 1, 1, 1, 1, 1, 1, 1, 1, 1, 1, 1, 1, 1, 1, 1, 1, 1, 1, 1, 1, 1, 1, 1, 1, 1, 1, 1, 1, 1, 1, 1, 1, 1, 1, 1, 1, 1, 1, 1, 1, 1, 1, 1, 1, 1, 1, 1, 1, 1, 1, 1, 1, 1, 1, 1, 1, 1, 1, 1, 1, 1>>,
    <<1, 1, 1, 1, 1, 1, 1, 1, 1, 1, 1, 1, 1, 1, 1, 1, 1, 1, 1, 1, 1, 1, 1, 1, 1, 1, 1, 1, 1, 1, 1, 1, 1, 1, 1, 1, 1, 1, 1, 1, 1, 1, 1, 1, 1, 1, 1, 1, 1, 1, 1, 1, 1, 1, 1, 1, 1, 1, 1, 1, 1, 1, 1, 1, 1, 1, 1, 1, 1, 1, 1, 1, 1, 1, 1, 1, 1, 1, 1, 1, 1, 1, 1, 1, 1, 1, 1, 1, 1, 1, 1, 1, 1, 1, 1, 1, 1>>,
    <<1, 1, 1, 1, 1, 1, 1, 1, 1, 1, 1, 1, 1, 1, 1, 1, 1, 1, 1, 1, 1, 1, 1, 1, 1, 1, 1, 1, 1, 1, 1, 1, 1, 1, 1, 1, 1, 1, 1, 1, 1, 1, 1, 1, 1, 1, 1, 1, 1, 1, 1, 1, 1, 1, 1, 1, 1, 1, 1, 1, 1, 1, 1, 1, 1, 1, 1, 1, 1, 1, 1, 1, 1, 1, 1, 1, 1, 1, 1, 1, 1, 1, 1, 1, 1, 1, 1, 1, 1, 1, 1, 1, 1, 1, 1, 1, 1>>,
    <<1, 1, 1, 1, 1, 1, 1, 1, 1, 1, 1, 1, 1, 1, 1, 1, 1, 1, 1, 1, 1, 1, 1, 1, 1, 1, 1, 1, 1, 1, 1, 1, 1, 1, 1, 1, 1, 1, 1, 1, 1, 1, 1, 1, 1, 1, 1, 1, 1, 1, 1, 1, 1, 1, 1, 1, 1, 1, 1, 1, 1, 1, 1, 1, 1, 1, 1, 1, 1, 1, 1, 1, 1, 1, 1, 1, 1, 1, 1, 1, 1, 1, 1, 1, 1, 1, 1, 1, 1, 1, 1, 1, 1, 1, 1, 1, 1>>,
    <<1, 1, 1, 1, 1, 1, 1, 1, 1, 1, 1, 1, 1, 1, 1, 1, 1, 1, 1, 1, 1, 1, 1, 1, 1, 1, 1, 1, 1, 1, 1, 1, 1, 1, 1, 1, 1, 1, 1, 1, 1, 1, 1, 1, 1, 1, 1, 1, 1, 1, 1, 1, 1, 1, 1, 1, 1, 1, 1, 1, 1, 1, 1, 1, 1, 1, 1, 1, 1, 1, 1, 1, 1, 1, 1, 1, 1, 1, 1, 1, 1, 1, 1, 1, 1, 1, 1, 1, 1, 1, 1, 1, 1, 1, 1, 1, 1>>,
    <<1, 1, 1, 1, 1, 1, 1, 1, 1, 1, 1, 1, 1, 1, 1, 1, 1, 1, 1, 1, 1, 1, 1, 1, 1, 1, 1, 1, 1, 1, 1, 1, 1, 1, 1, 1, 1, 1, 1, 1, 1, 1, 1, 1, 1, 1, 1, 1, 1, 1, 1, 1, 1, 1, 1, 1, 1, 1, 1, 1, 1, 1, 1, 1, 1, 1, 1, 1, 1, 1, 1, 1, 1, 1, 1, 1, 1, 1, 1, 1, 1, 1, 1, 1, 1, 1, 1, 1, 1, 1, 1, 1, 1, 1, 1, 1, 1>>,
    <<1, 1, 1, 1, 1, 1, 1, 1, 1, 1, 1, 1, 1, 1, 1, 1, 1, 1, 1, 1, 1, 1, 1, 1, 1, 1, 1, 1, 1, 1, 1, 1, 1, 1, 1, 1, 1, 1, 1, 1, 1, 1, 1, 1, 1, 1, 1, 1, 1, 1, 1, 1, 1, 1, 1, 1, 1, 1, 1, 1, 1, 1, 1, 1, 1, 1, 1, 1, 1, 1, 1, 1, 1, 1, 1, 1, 1, 1, 1, 1, 1, 1, 1, 1, 1, 1, 1, 1, 1, 1, 1, 1, 1, 1, 1, 1, 1>>,
    <<1, 1, 1, 1, 1, 1, 1, 1, 1, 1, 1, 1, 1, 1, 1, 1, 1, 1, 1, 1, 1, 1, 1, 1, 1, 1, 1, 1, 1, 1, 1, 1, 1, 1, 1, 1, 1, 1, 1, 1, 1, 1, 1, 1, 1, 1, 1, 1, 1, 1, 1, 1, 1, 1, 1, 1, 1, 1, 1, 1, 1, 1, 1, 1, 1, 1, 1, 1, 1, 1, 1, 1, 1, 1, 1, 1, 1, 1, 1, 1, 1, 1, 1, 1, 1, 1, 1, 1, 1, 1, 1, 1, 1, 1, 1, 1, 1>>,
    <<1, 1, 1, 1, 1, 1, 1, 1, 1, 1, 1, 1, 1, 1, 1, 1, 1, 1, 1, 1, 1, 1, 1, 1, 1, 1, 1, 1, 1, 1, 1, 1, 1, 1, 1, 1, 1, 1, 1, 1, 1, 1, 1, 1, 1, 1, 1, 1, 1, 1, 1, 1, 1, 1, 1, 1, 1, 1, 1, 1, 1, 1, 1, 1, 1, 1, 1, 1, 1, 1, 1, 1, 1, 1, 1, 1, 1, 1, 1, 1, 1, 1, 1, 1, 1, 1, 1, 1, 1, 1, 1, 1, 1, 1, 1, 1, 1>>,
    <<1, 1, 1, 1, 1, 1, 1, 1, 1, 1, 1, 1, 1, 1, 1, 1, 1, 1, 1, 1, 1, 1, 1, 1, 1, 1, 1, 1, 1, 1, 1, 1, 1, 1, 1, 1, 1, 1, 1, 1, 1, 1, 1, 1, 1, 1, 1, 1, 1, 1, 1, 1, 1, 1, 1, 1, 1, 1, 1, 1, 1, 1, 1, 1, 1, 1, 1, 1, 1, 1, 1, 1, 1, 1, 1, 1, 1, 1, 1, 1, 1, 1, 1, 1, 1, 1, 1, 1, 1, 1, 1, 1, 1, 1, 1, 1, 1>>,
    <<1, 1, 1, 1, 1, 1, 1, 1, 1, 1, 1, 1, 1, 1, 1, 1, 1, 1, 1, 1, 1, 1, 1, 1, 1, 1, 1, 1, 1, 1, 1, 1, 1, 1, 1, 1, 1, 1, 1, 1, 1, 1, 1, 1, 1, 1, 1, 1, 1, 1, 1, 1, 1, 1, 1, 1, 1, 1, 1, 1, 1, 1, 1, 1, 1, 1, 1, 1, 1, 1, 1, 1, 1, 1, 1, 1, 1, 1, 1, 1, 1, 1, 1, 1, 1, 1, 1, 1, 1, 1, 1, 1, 1, 1, 1, 1, 1>>,
    <<1, 1, 1, 1, 1, 1, 1, 1, 1, 1, 1, 1, 1, 1, 1, 1, 1, 1, 1, 1, 1, 1, 1, 1, 1, 1, 1, 1, 1, 1, 1, 1, 1, 1, 1, 1, 1, 1, 1, 1, 1, 1, 1, 1, 1, 1, 1, 1, 1, 1, 1, 1, 1, 1, 1, 1, 1, 1, 1, 1, 1, 1, 1, 1, 1, 1, 1, 1, 1, 1, 1, 1, 1, 1, 1, 1, 1, 1, 1, 1, 1, 1, 1, 1, 1, 1, 1, 1, 1, 1, 1, 1, 1, 1, 1, 1, 1>>,
    <<1, 1, 1, 1, 1, 1, 1, 1, 1, 1, 1, 1, 1, 1, 1, 1, 1, 1, 1, 1, 1, 1, 1, 1, 1, 1, 1, 1, 1, 1, 1, 1, 1, 1, 1, 1, 1, 1, 1, 1, 1, 1, 1, 1, 1, 1, 1, 1, 1, 1, 1, 1, 1, 1, 1, 1, 1, 1, 1, 1, 1, 1, 1, 1, 1, 1, 1, 1, 1, 1, 1, 1, 1, 1, 1, 1, 1, 1, 1, 1, 1, 1, 1, 1, 1, 1, 1, 1, 1, 1, 1, 1, 1, 1, 1, 1, 1>>,
    <<1, 1, 1, 1, 1, 1, 1, 1, 1, 1, 1, 1, 1, 1, 1, 1, 1, 1, 1, 1, 1, 1, 1, 1, 1, 1, 1, 1, 1, 1, 1, 1, 1, 1, 1, 1, 1, 1, 1, 1, 1, 1, 1, 1, 1, 1, 1, 1, 1, 1, 1, 1, 1, 1, 1, 1, 1, 1, 1, 1, 1, 1, 1, 1, 1, 1, 1, 1, 1, 1, 1, 1, 1, 1, 1, 1, 1, 1, 1, 1, 1, 1, 1, 1, 1, 1, 1, 1, 1, 1, 1, 1, 1, 1, 1, 1, 1>>,
    <<1, 1, 1, 1, 1, 1, 1, 1, 1, 1, 1, 1, 1, 1, 1, 1, 1, 1, 1, 1, 1, 1, 1, 1, 1, 1, 1, 1, 1, 1, 1, 1, 1, 1, 1, 1, 1, 1, 1, 1, 1, 1, 1, 1, 1, 1, 1, 1, 1, 1, 1, 1, 1, 1, 1, 1, 1, 1, 1, 1, 1, 1, 1, 1, 1, 1, 1, 1, 1, 1, 1, 1, 1, 1, 1, 1, 1, 1, 1, 1, 1, 1, 1, 1, 1, 1, 1, 1, 1, 1, 1, 1, 1, 1, 1, 1, 1>>,
    <<1, 1, 1, 1, 1, 1, 1, 1, 1, 1, 1, 1, 1, 1, 1, 1, 1, 1, 1, 1, 1, 1, 1, 1, 1, 1, 1, 1, 1, 1, 1, 1, 1, 1, 1, 1, 1, 1, 1, 1, 1, 1, 1, 1, 1, 1, 1, 1, 1, 1, 1, 1, 1, 1, 1, 1, 1, 1, 1, 1, 1, 1, 1, 1, 1, 1, 1, 1, 1, 1, 1, 1, 1, 1, 1, 1, 1, 1, 1, 1, 1, 1, 1, 1, 1, 1, 1, 1, 1, 1, 1, 1, 1, 1, 1, 1, 1>>,
    <<1, 1, 1, 1, 1, 1, 1, 1, 1, 1, 1, 1, 1, 1, 1, 1, 1, 1, 1, 1, 1, 1, 1, 1, 1, 1, 1, 1, 1, 1, 1, 1, 1, 1, 1, 1, 1, 1, 1, 1, 1, 1, 1, 1, 1, 1, 1, 1, 1, 1, 1, 1, 1, 1, 1, 1, 1, 1, 1, 1, 1, 1, 1, 1, 1, 1, 1, 1, 1, 1, 1, 1, 1, 1, 1, 1, 1, 1, 1, 1, 1, 1, 1, 1, 1, 1, 1, 1, 1, 1, 1, 1, 1, 1, 1, 1, 1>>,
    <<1, 1, 1, 1, 1, 1, 1, 1, 1, 1, 1, 1, 1, 1, 1, 1, 1, 1, 1, 1, 1, 1, 1, 1, 1, 1, 1, 1, 1, 1, 1, 1, 1, 1, 1, 1, 1, 1, 1, 1, 1, 1, 1, 1, 1, 1, 1, 1, 1, 1, 1, 1, 1, 1, 1, 1, 1, 1, 1, 1, 1, 1, 1, 1, 1, 1, 1, 1, 1, 1, 1, 1, 1, 1, 1, 1, 1, 1, 1, 1, 1, 1, 1, 1, 1, 1, 1, 1, 1, 1, 1, 1, 1, 1, 1, 1, 1>>,
    <<1, 1, 1, 1, 1, 1, 1, 1, 1, 1, 1, 1, 1, 1, 1, 1, 1, 1, 1, 1, 1, 1, 1, 1, 1, 1, 1, 1, 1, 1, 1, 1, 1, 1, 1, 1, 1, 1, 1, 1, 1, 1, 1, 1, 1, 1, 1, 1, 1, 1, 1, 1, 1, 1, 1, 1, 1, 1, 1, 1, 1, 1, 1, 1, 1, 1, 1, 1, 1, 1, 1, 1, 1, 1, 1, 1, 1, 1, 1, 1, 1, 1, 1, 1, 1, 1, 1, 1, 1, 1, 1, 1, 1, 1, 1, 1, 1>>,
    <<1, 1, 1, 1, 1, 1, 1, 1, 1, 1, 1, 1, 1, 1, 1, 1, 1, 1, 1, 1, 1, 1, 1, 1, 1, 1, 1, 1, 1, 1, 1, 1, 1, 1, 1, 1, 1, 1, 1, 1, 1, 1, 1, 1, 1, 1, 1, 1, 1, 1, 1, 1, 1, 1, 1, 1, 1, 1, 1, 1, 1, 1, 1, 1, 1, 1, 1, 1, 1, 1, 1, 1, 1, 1, 1, 1, 1, 1, 1, 1, 1, 1, 1, 1, 1, 1, 1, 1, 1, 1, 1, 1, 1, 1, 1, 1, 1>>,
    <<1, 1, 1, 1, 1, 1, 1, 1, 1, 1, 1, 1, 1, 1, 1, 1, 1, 1, 1, 1, 1, 1, 1, 1, 1, 1, 1, 1, 1, 1, 1, 1, 1, 1, 1, 1, 1, 1, 1, 1, 1, 1, 1, 1, 1, 1, 1, 1, 1, 1, 1, 1, 1, 1, 1, 1, 1, 1, 1, 1, 1, 1, 1, 1, 1, 1, 1, 1, 1, 1, 1, 1, 1, 1, 1, 1, 1, 1, 1, 1, 1, 1, 1, 1, 1, 1, 1, 1, 1, 1, 1, 1, 1, 1, 1, 1, 1>>,
    <<1, 1, 1, 1, 1, 1, 1, 1, 1, 1, 1, 1, 1, 1, 1, 1, 1, 1, 1, 1, 1, 1, 1, 1, 1, 1, 1, 1, 1, 1, 1, 1, 1, 1, 1, 1, 1, 1, 1, 1, 1, 1, 1, 1, 1, 1, 1, 1, 1, 1, 1, 1, 1, 1, 1, 1, 1, 1, 1, 1, 1, 1, 1, 1, 1, 1, 1, 1, 1, 1, 1, 1, 1, 1, 1, 1, 1, 1, 1, 1, 1, 1, 1, 1, 1, 1, 1, 1, 1, 1, 1, 1, 1, 1, 1, 1, 1>>,
    <<1, 1, 1, 1, 1, 1, 1, 1, 1, 1, 1, 1, 1, 1, 1, 1, 1, 1, 1, 1, 1, 1, 1, 1, 1, 1, 1, 1, 1, 1, 1, 1, 1, 1, 1, 1, 1, 1, 1, 1, 1, 1, 1, 1, 1, 1, 1, 1, 1, 1, 1, 1, 1, 1, 1, 1, 1, 1, 1, 1, 1, 1, 1, 1, 1, 1, 1, 1, 1, 1, 1, 1, 1, 1, 1, 1, 1, 1, 1, 1, 1, 1, 1, 1, 1, 1, 1, 1, 1, 1, 1, 1, 1, 1, 1, 1, 1>>,
    <<1, 1, 1, 1, 1, 1, 1, 1, 1, 1, 1, 1, 1, 1, 1, 1, 1, 1, 1, 1, 1, 1, 1, 1, 1, 1, 1, 1, 1, 1, 1, 1, 1, 1, 1, 1, 1, 1, 1, 1, 1, 1, 1, 1, 1, 1, 1, 1, 1, 1, 1, 1, 1, 1, 1, 1, 1, 1, 1, 1, 1, 1, 1, 1, 1, 1, 1, 1, 1, 1, 1, 1, 1, 1, 1, 1, 1, 1, 1, 1, 1, 1, 1, 1, 1, 1, 1, 1, 1, 1, 1, 1, 1, 1, 1, 1, 1>>,
    <<1, 1, 1, 1, 1, 1, 1, 1, 1, 1, 1, 1, 1, 1, 1, 1, 1, 1, 1, 1, 1, 1, 1, 1, 1, 1, 1, 1, 1, 1, 1, 1, 1, 1, 1, 1, 1, 1, 1, 1, 1, 1, 1, 1, 1, 1, 1, 1, 1, 1, 1, 1, 1, 1, 1, 1, 1, 1, 1, 1, 1, 1, 1, 1, 1, 1, 1, 1, 1, 1, 1, 1, 1, 1, 1, 1, 1, 1, 1, 1, 1, 1, 1, 1, 1, 1, 1, 1, 1, 1, 1, 1, 1, 1, 1, 1, 1>>,
    <<1, 1, 1, 1, 1, 1, 1, 1, 1, 1, 1, 1, 1, 1, 1, 1, 1, 1, 1, 1, 1, 1, 1, 1, 1, 1, 1, 1, 1, 1, 1, 1, 1, 1, 1, 1, 1, 1, 1, 1, 1, 1, 1, 1, 1, 1, 1, 1, 1, 1, 1, 1, 1, 1, 1, 1, 1, 1, 1, 1, 1, 1, 1, 1, 1, 1, 1, 1, 1, 1, 1, 1, 1, 1, 1, 1, 1, 1, 1, 1, 1, 1, 1, 1, 1, 1, 1, 1, 1, 1, 1, 1, 1, 1, 1, 1, 1>>,
    <<1, 1, 1, 1, 1, 1, 1, 1, 1, 1, 1, 1, 1, 1, 1, 1, 1, 1, 1, 1, 1, 1, 1, 1, 1, 1, 1, 1, 1, 1, 1, 1, 1, 1, 1, 1, 1, 1, 1, 1, 1, 1, 1, 1, 1, 1, 1, 1, 1, 1, 1, 1, 1, 1, 1, 1, 1, 1, 1, 1, 1, 1, 1, 1, 1, 1, 1, 1, 1, 1, 1, 1, 1, 1, 1, 1, 1, 1, 1, 1, 1, 1, 1, 1, 1, 1, 1, 1, 1, 1, 1, 1, 1, 1, 1, 1, 1>>,
    <<1, 1, 1, 1, 1, 1, 1, 1, 1, 1, 1, 1, 1, 1, 1, 1, 1, 1, 1, 1, 1, 1, 1, 1, 1, 1, 1, 1, 1, 1, 1, 1, 1, 1, 1, 1, 1, 1, 1, 1, 1, 1, 1, 1, 1, 1, 1, 1, 1, 1, 1, 1, 1, 1, 1, 1, 1, 1, 1, 1, 1, 1, 1, 1, 1, 1, 1, 1, 1, 1, 1, 1, 1, 1, 1, 1, 1, 1, 1, 1, 1, 1, 1, 1, 1, 1, 1, 1, 1, 1, 1, 1, 1, 1, 1, 1, 1>>,
    <<1, 1, 1, 1, 1, 1, 1, 1, 1, 1, 1, 1, 1, 1, 1, 1, 1, 1, 1, 1, 1, 1, 1, 1, 1, 1, 1, 1, 1, 1, 1, 1, 1, 1, 1, 1, 1, 1, 1, 1, 1, 1, 1, 1, 1, 1, 1, 1, 1, 1, 1, 1, 1, 1, 1, 1, 1, 1, 1, 1, 1, 1, 1, 1, 1, 1, 1, 1, 1, 1, 1, 1, 1, 1, 1, 1, 1, 1, 1, 1, 1, 1, 1, 1, 1, 1, 1, 1, 1, 1, 1, 1, 1, 1, 1, 1, 1>>,
    <<1, 1, 1, 1, 1, 1, 1, 1, 1, 1, 1, 1, 1, 1, 1, 1, 1, 1, 1, 1, 1, 1, 1, 1, 1, 1, 1, 1, 1, 1, 1, 1, 1, 1, 1, 1, 1, 1, 1, 1, 1, 1, 1, 1, 1, 1, 1, 1, 1, 1, 1, 1, 1, 1, 1, 1, 1, 1, 1, 1, 1, 1, 1, 1, 1, 1, 1, 1, 1, 1, 1, 1, 1, 1, 1, 1, 1, 1, 1, 1, 1, 1, 1, 1, 1, 1, 1, 1, 1, 1, 1, 1, 1, 1, 1, 1, 1>>,
    <<1, 1, 1, 1, 1, 1, 1, 1, 1, 1, 1, 1, 1, 1, 1, 1, 1, 1, 1, 1, 1, 1, 1, 1, 1, 1, 1, 1, 1, 1, 1, 1, 1, 1, 1, 1, 1, 1, 1, 1, 1, 1, 1, 1, 1, 1, 1, 1, 1, 1, 1, 1, 1, 1, 1, 1, 1, 1, 1, 1, 1, 1, 1, 1, 1, 1, 1, 1, 1, 1, 1, 1, 1, 1, 1, 1, 1, 1, 1, 1, 1, 1, 1, 1, 1, 1, 1, 1, 1, 1, 1, 1, 1, 1, 1, 1, 1>>,
    <<1, 1, 1, 1, 1, 1, 1, 1, 1, 1, 1, 1, 1, 1, 1, 1, 1, 1, 1, 1, 1, 1, 1, 1, 1, 1, 1, 1, 1, 1, 1, 1, 1, 1, 1, 1, 1, 1, 1, 1, 1, 1, 1, 1, 1, 1, 1, 1, 1, 1, 1, 1, 1, 1, 1, 1, 1, 1, 1, 1, 1, 1, 1, 1, 1, 1, 1, 1, 1, 1, 1, 1, 1, 1, 1, 1, 1, 1, 1, 1, 1, 1, 1, 1, 1, 1, 1, 1, 1, 1, 1, 1, 1, 1, 1, 1, 1>>,
    <<1, 1, 1, 1, 1, 1, 1, 1, 1, 1, 1, 1, 1, 1, 1, 1, 1, 1, 1, 1, 1, 1, 1, 1, 1, 1, 1, 1, 1, 1, 1, 1, 1, 1, 1, 1, 1, 1, 1, 1, 1, 1, 1, 1, 1, 1, 1, 1, 1, 1, 1, 1, 1, 1, 1, 1, 1, 1, 1, 1, 1, 1, 1, 1, 1, 1, 1, 1, 1, 1, 1, 1, 1, 1, 1, 1, 1, 1, 1, 1, 1, 1, 1, 1, 1, 1, 1, 1, 1, 1, 1, 1, 1, 1, 1, 1, 1>>,
    <<1, 1, 1, 1, 1, 1, 1, 1, 1, 1, 1, 1, 1, 1, 1, 1, 1, 1, 1, 1, 1, 1, 1, 1, 1, 1, 1, 1, 1, 1, 1, 1, 1, 1, 1, 1, 1, 1, 1, 1, 1, 1, 1, 1, 1, 1, 1, 1, 1, 1, 1, 1, 1, 1, 1, 1, 1, 1, 1, 1, 1, 1, 1, 1, 1, 1, 1, 1, 1, 1, 1, 1, 1, 1, 1, 1, 1, 1, 1, 1, 1, 1, 1, 1, 1, 1, 1, 1, 1, 1, 1, 1, 1, 1, 1, 1, 1>>,
    <<1, 1, 1, 1, 1, 1, 1, 1, 1, 1, 1, 1, 1, 1, 1, 1, 1, 1, 1, 1, 1, 1, 1, 1, 1, 1, 1, 1, 1, 1, 1, 1, 1, 1, 1, 1, 1, 1, 1, 1, 1, 1, 1, 1, 1, 1, 1, 1, 1, 1, 1, 1, 1, 1, 1, 1, 1, 1, 1, 1, 1, 1, 1, 1, 1, 1, 1, 1, 1, 1, 1, 1, 1, 1, 1, 1, 1, 1, 1, 1, 1, 1, 1, 1, 1, 1, 1, 1, 1, 1, 1, 1, 1, 1, 1, 1, 1>>,
    <<1, 1, 1, 1, 1, 1, 1, 1, 1, 1, 1, 1, 1, 1, 1, 1, 1, 1, 1, 1, 1, 1, 1, 1, 1, 1, 1, 1, 1, 1, 1, 1, 1, 1, 1, 1, 1, 1, 1, 1, 1, 1, 1, 1, 1, 1, 1, 1, 1, 1, 1, 1, 1, 1, 1, 1, 1, 1, 1, 1, 1, 1, 1, 1, 1, 1, 1, 1, 1, 1, 1, 1, 1, 1, 1, 1, 1, 1, 1, 1, 1, 1, 1, 1, 1, 1, 1, 1, 1, 1, 1, 1, 1, 1, 1, 1, 1>>,
    <<1, 1, 1, 1, 1, 1, 1, 1, 1, 1, 1, 1, 1, 1, 1, 1, 1, 1, 1, 1, 1, 1, 1, 1, 1, 1, 1, 1, 1, 1, 1, 1, 1, 1, 1, 1, 1, 1, 1, 1, 1, 1, 1, 1, 1, 1, 1, 1, 1, 1, 1, 1, 1, 1, 1, 1, 1, 1, 1, 1, 1, 1, 1, 1, 1, 1, 1, 1, 1, 1, 1, 1, 1, 1, 1, 1, 1, 1, 1, 1, 1, 1, 1, 1, 1, 1, 1, 1, 1, 1, 1, 1, 1, 1, 1, 1, 1>>,
    <<1, 1, 1, 1, 1, 1, 1, 1, 1, 1, 1, 1, 1, 1, 1, 1, 1, 1, 1, 1, 1, 1, 1, 1, 1, 1, 1, 1, 1, 1, 1, 1, 1, 1, 1, 1, 1, 1, 1, 1, 1, 1, 1, 1, 1, 1, 1, 1, 1, 1, 1, 1, 1, 1, 1, 1, 1, 1, 1, 1, 1, 1, 1, 1, 1, 1, 1, 1, 1, 1, 1, 1, 1, 1, 1, 1, 1, 1, 1, 1, 1, 1, 1, 1, 1, 1, 1, 1, 1, 1, 1, 1, 1, 1, 1, 1, 1>>,
    <<1, 1, 1, 1, 1, 1, 1, 1, 1, 1, 1, 1, 1, 1, 1, 1, 1, 1, 1, 1, 1, 1, 1, 1, 1, 1, 1, 1, 1, 1, 1, 1, 1, 1, 1, 1, 1, 1, 1, 1, 1, 1, 1, 1, 1, 1, 1, 1, 1, 1, 1, 1, 1, 1, 1, 1, 1, 1, 1, 1, 1, 1, 1, 1, 1, 1, 1, 1, 1, 1, 1, 1, 1, 1, 1, 1, 1, 1, 1, 1, 1, 1, 1, 1, 1, 1, 1, 1, 1, 1, 1, 1, 1, 1, 1, 1, 1>>,
    <<1, 1, 1, 1, 1, 1, 1, 1, 1, 1, 1, 1, 1, 1, 1, 1, 1, 1, 1, 1, 1, 1, 1, 1, 1, 1, 1, 1, 1, 1, 1, 1, 1, 1, 1, 1, 1, 1, 1, 1, 1, 1, 1, 1, 1, 1, 1, 1, 1, 1, 1, 1, 1, 1, 1, 1, 1, 1, 1, 1, 1, 1, 1, 1, 1, 1, 1, 1, 1, 1, 1, 1, 1, 1, 1, 1, 1, 1, 1, 1, 1, 1, 1, 1, 1, 1, 1, 1, 1, 1, 1, 1, 1, 1, 1, 1, 1>>,
    <<1, 1, 1, 1, 1, 1, 1, 1, 1, 1, 1, 1, 1, 1, 1, 1, 1, 1, 1, 1, 1, 1, 1, 1, 1, 1, 1, 1, 1, 1, 1, 1, 1, 1, 1, 1, 1, 1, 1, 1, 1, 1, 1, 1, 1, 1, 1, 1, 1, 1, 1, 1, 1, 1, 1, 1, 1, 1, 1, 1, 1, 1, 1, 1, 1, 1, 1, 1, 1, 1, 1, 1, 1, 1, 1, 1, 1, 1, 1, 1, 1, 1, 1, 1, 1, 1, 1, 1, 1, 1, 1, 1, 1, 1, 1, 1, 1>>,
    <<1, 1, 1, 1, 1, 1, 1, 1, 1, 1, 1, 1, 1, 1, 1, 1, 1, 1, 1, 1, 1, 1, 1, 1, 1, 1, 1, 1, 1, 1, 1, 1, 1, 1, 1, 1, 1, 1, 1, 1, 1, 1, 1, 1, 1, 1, 1, 1, 1, 1, 1, 1, 1, 1, 1, 1, 1, 1, 1, 1, 1, 1, 1, 1, 1, 1, 1, 1, 1, 1, 1, 1, 1, 1, 1, 1, 1, 1, 1, 1, 1, 1, 1, 1, 1, 1, 1, 1, 1, 1, 1, 1, 1, 1, 1, 1, 1>>,
    <<1, 1, 1, 1, 1, 1, 1, 1, 1, 1, 1, 1, 1, 1, 1, 1, 1, 1, 1, 1, 1, 1, 1, 1, 1, 1, 1, 1, 1, 1, 1, 1, 1, 1, 1, 1, 1, 1, 1, 1, 1, 1, 1, 1, 1, 1, 1, 1, 1, 1, 1, 1, 1, 1, 1, 1, 1, 1, 1, 1, 1, 1, 1, 1, 1, 1, 1, 1, 1, 1, 1, 1, 1, 1, 1, 1, 1, 1, 1, 1, 1, 1, 1, 1, 1, 1, 1, 1, 1, 1, 1, 1, 1, 1, 1, 1, 1>>,
    <<1, 1, 1, 1, 1, 1, 1, 1, 1, 1, 1, 1, 1, 1, 1, 1, 1, 1, 1, 1, 1, 1, 1, 1, 1, 1, 1, 1, 1, 1, 1, 1, 1, 1, 1, 1, 1, 1, 1, 1, 1, 1, 1, 1, 1, 1, 1, 1, 1, 1, 1, 1, 1, 1, 1, 1, 1, 1, 1, 1, 1, 1, 1, 1, 1, 1, 1, 1, 1, 1, 1, 1, 1, 1, 1, 1, 1, 1, 1, 1, 1, 1, 1, 1, 1, 1, 1, 1, 1, 1, 1, 1, 1, 1, 1, 1, 1>>,
    <<1, 1, 1, 1, 1, 1, 1, 1, 1, 1, 1, 1, 1, 1, 1, 1, 1, 1, 1, 1, 1, 1, 1, 1, 1, 1, 1, 1, 1, 1, 1, 1, 1, 1, 1, 1, 1, 1, 1, 1, 1, 1, 1, 1, 1, 1, 1, 1, 1, 1, 1, 1, 1, 1, 1, 1, 1, 1, 1, 1, 1, 1, 1, 1, 1, 1, 1, 1, 1, 1, 1, 1, 1, 1, 1, 1, 1, 1, 1, 1, 1, 1, 1, 1, 1, 1, 1, 1, 1, 1, 1, 1, 1, 1, 1, 1, 1>>,
    <<1, 1, 1, 1, 1, 1, 1, 1, 1, 1, 1, 1, 1, 1, 1, 1, 1, 1, 1, 1, 1, 1, 1, 1, 1, 1, 1, 1, 1, 1, 1, 1, 1, 1, 1, 1, 1, 1, 1, 1, 1, 1, 1, 1, 1, 1, 1, 1, 1, 1, 1, 1, 1, 1, 1, 1, 1, 1, 1, 1, 1, 1, 1, 1, 1, 1, 1, 1, 1, 1, 1, 1, 1, 1, 1, 1, 1, 1, 1, 1, 1, 1, 1, 1, 1, 1, 1, 1, 1, 1, 1, 1, 1, 1, 1, 1, 1>>,
    <<1, 1, 1, 1, 1, 1, 1, 1, 1, 1, 1, 1, 1, 1, 1, 1, 1, 1, 1, 1, 1, 1, 1, 1, 1, 1, 1, 1, 1, 1, 1, 1, 1, 1, 1, 1, 1, 1, 1, 1, 1, 1, 1, 1, 1, 1, 1, 1, 1, 1, 1, 1, 1, 1, 1, 1, 1, 1, 1, 1, 1, 1, 1, 1, 1, 1, 1, 1, 1, 1, 1, 1, 1, 1, 1, 1, 1, 1, 1, 1, 1, 1, 1, 1, 1, 1, 1, 1, 1, 1, 1, 1, 1, 1, 1, 1, 1>>,
    <<1, 1, 1, 1, 1, 1, 1, 1, 1, 1, 1, 1, 1, 1, 1, 1, 1, 1, 1, 1, 1, 1, 1, 1, 1, 1, 1, 1, 1, 1, 1, 1, 1, 1, 1, 1, 1, 1, 1, 1, 1, 1, 1, 1, 1, 1, 1, 1, 1, 1, 1, 1, 1, 1, 1, 1, 1, 1, 1, 1, 1, 1, 1, 1, 1, 1, 1, 1, 1, 1, 1, 1, 1, 1, 1, 1, 1, 1, 1, 1, 1, 1, 1, 1, 1, 1, 1, 1, 1, 1, 1, 1, 1, 1, 1, 1, 1>>,
    <<1, 1, 1, 1, 1, 1, 1, 1, 1, 1, 1, 1, 1, 1, 1, 1, 1, 1, 1, 1, 1, 1, 1, 1, 1, 1, 1, 1, 1, 1, 1, 1, 1, 1, 1, 1, 1, 1, 1, 1, 1, 1, 1, 1, 1, 1, 1, 1, 1, 1, 1, 1, 1, 1, 1, 1, 1, 1, 1, 1, 1, 1, 1, 1, 1, 1, 1, 1, 1, 1, 1, 1, 1, 1, 1, 1, 1, 1, 1, 1, 1, 1, 1, 1, 1, 1, 1, 1, 1, 1, 1, 1, 1, 1, 1, 1, 1>>,
    <<1, 1, 1, 1, 1, 1, 1, 1, 1, 1, 1, 1, 1, 1, 1, 1, 1, 1, 1, 1, 1, 1, 1, 1, 1, 1, 1, 1, 1, 1, 1, 1, 1, 1, 1, 1, 1, 1, 1, 1, 1, 1, 1, 1, 1, 1, 1, 1, 1, 1, 1, 1, 1, 1, 1, 1, 1, 1, 1, 1, 1, 1, 1, 1, 1, 1, 1, 1, 1, 1, 1, 1, 1, 1, 1, 1, 1, 1, 1, 1, 1, 1, 1, 1, 1, 1, 1, 1, 1, 1, 1, 1, 1, 1, 1, 1, 1>>,
    <<1, 1, 1, 1, 1, 1, 1, 1, 1, 1, 1, 1, 1, 1, 1, 1, 1, 1, 1, 1, 1, 1, 1, 1, 1, 1, 1, 1, 1, 1, 1, 1, 1, 1, 1, 1, 1, 1, 1, 1, 1, 1, 1, 1, 1, 1, 1, 1, 1, 1, 1, 1, 1, 1, 1, 1, 1, 1, 1, 1, 1, 1, 1, 1, 1, 1, 1, 1, 1, 1, 1, 1, 1, 1, 1, 1, 1, 1, 1, 1, 1, 1, 1, 1, 1, 1, 1, 1, 1, 1, 1, 1, 1, 1, 1, 1, 1>>,
    <<1, 1, 1, 1, 1, 1, 1, 1, 1, 1, 1, 1, 1, 1, 1, 1, 1, 1, 1, 1, 1, 1, 1, 1, 1, 1, 1, 1, 1, 1, 1, 1, 1, 1, 1, 1, 1, 1, 1, 1, 1, 1, 1, 1, 1, 1, 1, 1, 1, 1, 1, 1, 1, 1, 1, 1, 1, 1, 1, 1, 1, 1, 1, 1, 1, 1, 1, 1, 1, 1, 1, 1, 1, 1, 1, 1, 1, 1, 1, 1, 1, 1, 1, 1, 1, 1, 1, 1, 1, 1, 1, 1, 1, 1, 1, 1, 1>>,
    <<1, 1, 1, 1, 1, 1, 1, 1, 1, 1, 1, 1, 1, 1, 1, 1, 1, 1, 1, 1, 1, 1, 1, 1, 1, 1, 1, 1, 1, 1, 1, 1, 1, 1, 1, 1, 1, 1, 1, 1, 1, 1, 1, 1, 1, 1, 1, 1, 1, 1, 1, 1, 1, 1, 1, 1, 1, 1, 1, 1, 1, 1, 1, 1, 1, 1, 1, 1, 1, 1, 1, 1, 1, 1, 1, 1, 1, 1, 1, 1, 1, 1, 1, 1, 1, 1, 1, 1, 1, 1, 1, 1, 1, 1, 1, 1, 1>>,
    <<1, 1, 1, 1, 1, 1, 1, 1, 1, 1, 1, 1, 1, 1, 1, 1, 1, 1, 1, 1, 1, 1, 1, 1, 1, 1, 1, 1, 1, 1, 1, 1, 1, 1, 1, 1, 1, 1, 1, 1, 1, 1, 1, 1, 1, 1, 1, 1, 1, 1, 1, 1, 1, 1, 1, 1, 1, 1, 1, 1, 1, 1, 1, 1, 1, 1, 1, 1, 1, 1, 1, 1, 1, 1, 1, 1, 1, 1, 1, 1, 1, 1, 1, 1, 1, 1, 1, 1, 1, 1, 1, 1, 1, 1, 1, 1, 1>>,
    <<1, 1, 1, 1, 1, 1, 1, 1, 1, 1, 1, 1, 1, 1, 1, 1, 1, 1, 1, 1, 1, 1, 1, 1, 1, 1, 1, 1, 1, 1, 1, 1, 1, 1, 1, 1, 1, 1, 1, 1, 1, 1, 1, 1, 1, 1, 1, 1, 1, 1, 1, 1, 1, 1, 1, 1, 1, 1, 1, 1, 1, 1, 1, 1, 1, 1, 1, 1, 1, 1, 1, 1, 1, 1, 1, 1, 1, 1, 1, 1, 1, 1, 1, 1, 1, 1, 1, 1, 1, 1, 1, 1, 1, 1, 1, 1, 1>>,
    <<1, 1, 1, 1, 1, 1, 1, 1, 1, 1, 1, 1, 1, 1, 1, 1, 1, 1, 1, 1, 1, 1, 1, 1, 1, 1, 1, 1, 1, 1, 1, 1, 1, 1, 1, 1, 1, 1, 1, 1, 1, 1, 1, 1, 1, 1, 1, 1, 1, 1, 1, 1, 1, 1, 1, 1, 1, 1, 1, 1, 1, 1, 1, 1, 1, 1, 1, 1, 1, 1, 1, 1, 1, 1, 1, 1, 1, 1, 1, 1, 1, 1, 1, 1, 1, 1, 1, 1, 1, 1, 1, 1, 1, 1, 1, 1, 1>>,
    <<1, 1, 1, 1, 1, 1, 1, 1, 1, 1, 1, 1, 1, 1, 1, 1, 1, 1, 1, 1, 1, 1, 1, 1, 1, 1, 1, 1, 1, 1, 1, 1, 1, 1, 1, 1, 1, 1, 1, 1, 1, 1, 1, 1, 1, 1, 1, 1, 1, 1, 1, 1, 1, 1, 1, 1, 1, 1, 1, 1, 1, 1, 1, 1, 1, 1, 1, 1, 1, 1, 1, 1, 1, 1, 1, 1, 1, 1, 1, 1, 1, 1, 1, 1, 1, 1, 1, 1, 1, 1, 1, 1, 1, 1, 1, 1, 1>>,
    <<1, 1, 1, 1, 1, 1, 1, 1, 1, 1, 1, 1, 1, 1, 1, 1, 1, 1, 1, 1, 1, 1, 1, 1, 1, 1, 1, 1, 1, 1, 1, 1, 1, 1, 1, 1, 1, 1, 1, 1, 1, 1, 1, 1, 1, 1, 1, 1, 1, 1, 1, 1, 1, 1, 1, 1, 1, 1, 1, 1, 1, 1, 1, 1, 1, 1, 1, 1, 1, 1, 1, 1, 1, 1, 1, 1, 1, 1, 1, 1, 1, 1, 1, 1, 1, 1, 1, 1, 1, 1, 1, 1, 1, 1, 1, 1, 1>>,
    <<1, 1, 1, 1, 1, 1, 1, 1, 1, 1, 1, 1, 1, 1, 1, 1, 1, 1, 1, 1, 1, 1, 1, 1, 1, 1, 1, 1, 1, 1, 1, 1, 1, 1, 1, 1, 1, 1, 1, 1, 1, 1, 1, 1, 1, 1, 1, 1, 1, 1, 1, 1, 1, 1, 1, 1, 1, 1, 1, 1, 1, 1, 1, 1, 1, 1, 1, 1, 1, 1, 1, 1, 1, 1, 1, 1, 1, 1, 1, 1, 1, 1, 1, 1, 1, 1, 1, 1, 1, 1, 1, 1, 1, 1, 1, 1, 1>>,
    <<1, 1, 1, 1, 1, 1, 1, 1, 1, 1, 1, 1, 1, 1, 1, 1, 1, 1, 1, 1, 1, 1, 1, 1, 1, 1, 1, 1, 1, 1, 1, 1, 1, 1, 1, 1, 1, 1, 1, 1, 1, 1, 1, 1, 1, 1, 1, 1, 1, 1, 1, 1, 1, 1, 1, 1, 1, 1, 1, 1, 1, 1, 1, 1, 1, 1, 1, 1, 1, 1, 1, 1, 1, 1, 1, 1, 1, 1, 1, 1, 1, 1, 1, 1, 1, 1, 1, 1, 1, 1, 1, 1, 1, 1, 1, 1, 1>>,
    <<1, 1, 1, 1, 1, 1, 1, 1, 1, 1, 1, 1, 1, 1, 1, 1, 1, 1, 1, 1, 1, 1, 1, 1, 1, 1, 1, 1, 1, 1, 1, 1, 1, 1, 1, 1, 1, 1, 1, 1, 1, 1, 1, 1, 1, 1, 1, 1, 1, 1, 1, 1, 1, 1, 1, 1, 1, 1, 1, 1, 1, 1, 1, 1, 1, 1, 1, 1, 1, 1, 1, 1, 1, 1, 1, 1, 1, 1, 1, 1, 1, 1, 1, 1, 1, 1, 1, 1, 1, 1, 1, 1, 1, 1, 1, 1, 1>>,
    <<1, 1, 1, 1, 1, 1, 1, 1, 1, 1, 1, 1, 1, 1, 1, 1, 1, 1, 1, 1, 1, 1, 1, 1, 1, 1, 1, 1, 1, 1, 1, 1, 1, 1, 1, 1, 1, 1, 1, 1, 1, 1, 1, 1, 1, 1, 1, 1, 1, 1, 1, 1, 1, 1, 1, 1, 1, 1, 1, 1, 1, 1, 1, 1, 1, 1, 1, 1, 1, 1, 1, 1, 1, 1, 1, 1, 1, 1, 1, 1, 1, 1, 1, 1, 1, 1, 1, 1, 1, 1, 1, 1, 1, 1, 1, 1, 1>>,
    <<1, 1, 1, 1, 1, 1, 1, 1, 1, 1, 1, 1, 1, 1, 1, 1, 1, 1, 1, 1, 1, 1, 1, 1, 1, 1, 1, 1, 1, 1, 1, 1, 1, 1, 1, 1, 1, 1, 1, 1, 1, 1, 1, 1, 1, 1, 1, 1, 1, 1, 1, 1, 1, 1, 1, 1, 1, 1, 1, 1, 1, 1, 1, 1, 1, 1, 1, 1, 1, 1, 1, 1, 1, 1, 1, 1, 1, 1, 1, 1, 1, 1, 1, 1, 1, 1, 1, 1, 1, 1, 1, 1, 1, 1, 1, 1, 1>>
  >>
EscapeTable1000 ==
  <<
    <<1, 1, 1, 1, 1, 1, 1, 1, 1, 1, 1, 1, 1, 1, 1, 1, 1, 1, 1, 1, 1, 1, 1, 1, 1, 1, 1, 1, 1, 1, 1, 1, 1, 1, 1, 1, 1, 1, 1, 1, 1, 1, 1, 1, 1, 1, 1, 1, 1, 1, 1, 1, 1, 1, 1, 1, 1, 1, 1, 1, 1, 1, 1, 1, 1, 1, 1, 1, 1, 1, 1, 1, 1, 1, 1, 1, 1, 1, 1, 1, 1, 1, 1, 1, 1, 1, 1, 1, 1, 1, 1, 1, 1, 1, 1, 1, 1>>,
    <<1, 1, 1, 1, 1, 1, 1, 1, 1, 1, 1, 1, 1, 1, 1, 1, 1, 1, 1, 1, 1, 1, 1, 1, 1, 1, 1, 1, 1, 1, 1, 1, 1, 1, 1, 1, 1, 1, 1, 1, 1, 1, 1, 1, 1, 1, 1, 1, 1, 1, 1, 1, 1, 1, 1, 1, 1, 1, 1, 1, 1, 1, 1, 1, 1, 1, 1, 1, 1, 1, 1, 1, 1, 1, 1, 1, 1, 1, 1, 1, 1, 1, 1, 1, 1, 1, 1, 1, 1, 1, 1, 1, 1, 1, 1, 1, 1>>,
    <<1, 1, 1, 1, 1, 1, 1, 1, 1, 1, 1, 1, 1, 1, 1, 1, 1, 1, 1, 1, 1, 1, 1, 1, 1, 1, 1, 1, 1, 1, 1, 1, 1, 1, 1, 1, 1, 1, 1, 1, 1, 1, 1, 1, 1, 1, 1, 1, 1, 1, 1, 1, 1, 1, 1, 1, 1, 1, 1, 1, 1, 1, 1, 1, 1, 1, 1, 1, 1, 1, 1, 1, 1, 1, 1, 1, 1, 1, 1, 1, 1, 1, 1, 1, 1, 1, 1, 1, 1, 1, 1, 1, 1, 1, 1, 1, 1>>,
    <<1, 1, 1, 1, 1, 1, 1, 1, 1, 1, 1, 1, 1, 1, 1, 1, 1, 1, 1, 1, 1, 1, 1, 1, 1, 1, 1, 1, 1, 1, 1, 1, 1, 1, 1, 1, 1, 1, 1, 1, 1, 1, 1, 1, 1, 1, 1, 1, 1, 1, 1, 1, 1, 1, 1, 1, 1, 1, 1, 1, 1, 1, 1, 1, 1, 1, 1, 1, 1, 1, 1, 1, 1, 1, 1, 1, 1, 1, 1, 1, 1, 1, 1, 1, 1, 1, 1, 1, 1, 1, 1, 1, 1, 1, 1, 1, 1>>,
    <<1, 1, 1, 1, 1, 1, 1, 1, 1, 1, 1, 1, 1, 1, 1, 1, 1, 1, 1, 1, 1, 1, 1, 1, 1, 1, 1, 1, 1, 1, 1, 1, 1, 1, 1, 1, 1, 1, 1, 1, 1, 1, 1, 1, 1, 1, 1, 1, 1, 1, 1, 1, 1, 1, 1, 1, 1, 1, 1, 1, 1, 1, 1, 1, 1, 1, 1, 1, 1, 1, 1, 1, 1, 1, 1, 1, 1, 1, 1, 1, 1, 1, 1, 1, 1, 1, 1, 1, 1, 1, 1, 1, 1, 1, 1, 1, 1>>,
    <<1, 1, 1, 1, 1, 1, 1, 1, 1, 1, 1, 1, 1, 1, 1, 1, 1, 1, 1, 1, 1, 1, 1, 1, 1, 1, 1, 1, 1, 1, 1, 1, 1, 1, 1, 1, 1, 1, 1, 1, 1, 1, 1, 1, 1, 1, 1, 1, 1, 1, 1, 1, 1, 1, 1, 1, 1, 1, 1, 1, 1, 1, 1, 1, 1, 1, 1, 1, 1, 1, 1, 1, 1, 1, 1, 1, 1, 1, 1, 1, 1, 1, 1, 1, 1, 1, 1, 1, 1, 1, 1, 1, 1, 1, 1, 1, 1>>,
    <<1, 1, 1, 1, 1, 1, 1, 1, 1, 1, 1, 1, 1, 1, 1, 1, 1, 1, 1, 1, 1, 1, 1, 1, 1, 1, 1, 1, 1, 1, 1, 1, 1, 1, 1, 1, 1, 1, 1, 1, 1, 1, 1, 1, 1, 1, 1, 1, 1, 1, 1, 1, 1, 1, 1, 1, 1, 1, 1, 1, 1, 1, 1, 1, 1, 1, 1, 1, 1, 1, 1, 1, 1, 1, 1, 1, 1, 1, 1, 1, 1, 1, 1, 1, 1, 1, 1, 1, 1, 1, 1, 1, 1, 1, 1, 1, 1>>,
    <<1, 1, 1, 1, 1, 1, 1, 1, 1, 1, 1, 1, 1, 1, 1, 1, 1, 1, 1, 1, 1, 1, 1, 1, 1, 1, 1, 1, 1, 1, 1, 1, 1, 1, 1, 1, 1, 1, 1, 1, 1, 1, 1, 1, 1, 1, 1, 1, 1, 1, 1, 1, 1, 1, 1, 1, 1, 1, 1, 1, 1, 1, 1, 1, 1, 1, 1, 1, 1, 1, 1, 1, 1, 1, 1, 1, 1, 1, 1, 1, 1, 1, 1, 1, 1, 1, 1, 1, 1, 1, 1, 1, 1, 1, 1, 1, 1>>,
    <<1, 1, 1, 1, 1, 1, 1, 1, 1, 1, 1, 1, 1, 1, 1, 1, 1, 1, 1, 1, 1, 1, 1, 1, 1, 1, 1, 1, 1, 1, 1, 1, 1, 1, 1, 1, 1, 1, 1, 1, 1, 1, 1, 1, 1, 1, 1, 1, 1, 1, 1, 1, 1, 1, 1, 1, 1, 1, 1, 1, 1, 1, 1, 1, 1, 1, 1, 1, 1, 1, 1, 1, 1, 1, 1, 1, 1, 1, 1, 1, 1, 1, 1, 1, 1, 1, 1, 1, 1, 1, 1, 1, 1, 1, 1, 1, 1>>,
    <<1, 1, 1, 1, 1, 1, 1, 1, 1, 1, 1, 1, 1, 1, 1, 1, 1, 1, 1, 1, 1, 1, 1, 1, 1, 1, 1, 1, 1, 1, 1, 1, 1, 1, 1, 1, 1, 1, 1, 1, 1, 1, 1, 1, 1, 1, 1, 1, 1, 1, 1, 1, 1, 1, 1, 1, 1, 1, 1, 1, 1, 1, 1, 1, 1, 1, 1, 1, 1, 1, 1, 1, 1, 1, 1, 1, 1, 1, 1, 1, 1, 1, 1, 1, 1, 1, 1, 1, 1, 1, 1, 1, 1, 1, 1, 1, 1>>,
    <<1, 1, 1, 1, 1, 1, 1, 1, 1, 1, 1, 1, 1, 1, 1, 1, 1, 1, 1, 1, 1, 1, 1, 1, 1, 1, 1, 1, 1, 1, 1, 1, 1, 1, 1, 1, 1, 1, 1, 1, 1, 1, 1, 1, 1, 1, 1, 1, 1, 1, 1, 1, 1, 1, 1, 1, 1, 1, 1, 1, 1, 1, 1, 1, 1, 1, 1, 1, 1, 1, 1, 1, 1, 1, 1, 1, 1, 1, 1, 1, 1, 1, 1, 1, 1, 1, 1, 1, 1, 1, 1, 1, 1, 1, 1, 1, 1>>,
    <<1, 1, 1, 1, 1, 1, 1, 1, 1, 1, 1, 1, 1, 1, 1, 1, 1, 1, 1, 1, 1, 1, 1, 1, 1, 1, 1, 1, 1, 1, 1, 1, 1, 1, 1, 1, 1, 1, 1, 1, 1, 1, 1, 1, 1, 1, 1, 1, 1, 1, 1, 1, 1, 1, 1, 1, 1, 1, 1, 1, 1, 1, 1, 1, 1, 1, 1, 1, 1, 1, 1, 1, 1, 1, 1, 1, 1, 1, 1, 1, 1, 1, 1, 1, 1, 1, 1, 1, 1, 1, 1, 1, 1, 1, 1, 1, 1>>,
    <<1, 1, 1, 1, 1, 1, 1, 1, 1, 1, 1, 1, 1, 1, 1, 1, 1, 1, 1, 1, 1, 1, 1, 1, 1, 1, 1, 1, 1, 1, 1, 1, 1, 1, 1, 1, 1, 1, 1, 1, 1, 1, 1, 1, 1, 1, 1, 1, 1, 1, 1, 1, 1, 1, 1, 1, 1, 1, 1, 1, 1, 1, 1, 1, 1, 1, 1, 1, 1, 1, 1, 1, 1, 1, 1, 1, 1, 1, 1, 1, 1, 1, 1, 1, 1, 1, 1, 1, 1, 1, 1, 1, 1, 1, 1, 1, 1>>,
    <<1, 1, 1, 1, 1, 1, 1, 1, 1, 1, 1, 1, 1, 1, 1, 1, 1, 1, 1, 1, 1, 1, 1, 1, 1, 1, 1, 1, 1, 1, 1, 1, 1, 1, 1, 1, 1, 1, 1, 1, 1, 1, 1, 1, 1, 1, 1, 1, 1, 1, 1, 1, 1, 1, 1, 1, 1, 1, 1, 1, 1, 1, 1, 1, 1, 1, 1, 1, 1, 1, 1, 1, 1, 1, 1, 1, 1, 1, 1, 1, 1, 1, 1, 1, 1, 1, 1, 1, 1, 1, 1, 1, 1, 1, 1, 1, 1>>,
    <<1, 1, 1, 1, 1, 1, 1, 1, 1, 1, 1, 1, 1, 1, 1, 1, 1, 1, 1, 1, 1, 1, 1, 1, 1, 1, 1, 1, 1, 1, 1, 1, 1, 1, 1, 1, 1, 1, 1, 1, 1, 1, 1, 1, 1, 1, 1, 1, 1, 1, 1, 1, 1, 1, 1, 1, 1, 1, 1, 1, 1, 1, 1, 1, 1, 1, 1, 1, 1, 1, 1, 1, 1, 1, 1, 1, 1, 1, 1, 1, 1, 1, 1, 1, 1, 1, 1, 1, 1, 1, 1, 1, 1, 1, 1, 1, 1>>,
    <<1, 1, 1, 1, 1, 1, 1, 1, 1, 1, 1, 1, 1, 1, 1, 1, 1, 1, 1, 1, 1, 1, 1, 1, 1, 1, 1, 1, 1, 1, 1, 1, 1, 1, 1, 1, 1, 1, 1, 1, 1, 1, 1, 1, 1, 1, 1, 1, 1, 1, 1, 1, 1, 1, 1, 1, 1, 1, 1, 1, 1, 1, 1, 1, 1, 1, 1, 1, 1, 1, 1, 1, 1, 1, 1, 1, 1, 1, 1, 1, 1, 1, 1, 1, 1, 1, 1, 1, 1, 1, 1, 1, 1, 1, 1, 1, 1>>,
    <<1, 1, 1, 1, 1, 1, 1, 1, 1, 1, 1, 1, 1, 1, 1, 1, 1, 1, 1, 1, 1, 1, 1, 1, 1, 1, 1, 1, 1, 1, 1, 1, 1, 1, 1, 1, 1, 1, 1, 1, 1, 1, 1, 1, 1, 1, 1, 1, 1, 1, 1, 1, 1, 1, 1, 1, 1, 1, 1, 1, 1, 1, 1, 1, 1, 1, 1, 1, 1, 1, 1, 1, 1, 1, 1, 1, 1, 1, 1, 1, 1, 1, 1, 1, 1, 1, 1, 1, 1, 1, 1, 1, 1, 1, 1, 1, 1>>,
    <<1, 1, 1, 1, 1, 1, 1, 1, 1, 1, 1, 1, 1, 1, 1, 1, 1, 1, 1, 1, 1, 1, 1, 1, 1, 1, 1, 1, 1, 1, 1, 1, 1, 1, 1, 1, 1, 1, 1, 1, 1, 1, 1, 1, 1, 1, 1, 1, 1, 1, 1, 1, 1, 1, 1, 1, 1, 1, 1, 1, 1, 1, 1, 1, 1, 1, 1, 1, 1, 1, 1, 1, 1, 1, 1, 1, 1, 1, 1, 1, 1, 1, 1, 1, 1, 1, 1, 1, 1, 1, 1, 1, 1, 1, 1, 1, 1>>,
    <<1, 1, 1, 1, 1, 1, 1, 1, 1, 1, 1, 1, 1, 1, 1, 1, 1, 1, 1, 1, 1, 1, 1, 1, 1, 1, 1, 1, 1, 1, 1, 1, 1, 1, 1, 1, 1, 1, 1, 1, 1, 1, 1, 1, 1, 1, 1, 1, 1, 1, 1, 1, 1, 1, 1, 1, 1, 1, 1, 1, 1, 1, 1, 1, 1, 1, 1, 1, 1, 1, 1, 1, 1, 1, 1, 1, 1, 1, 1, 1, 1, 1, 1, 1, 1, 1, 1, 1, 1, 1, 1, 1, 1, 1, 1, 1, 1>>,
    <<1, 1, 1, 1, 1, 1, 1, 1, 1, 1, 1, 1, 1, 1, 1, 1, 1, 1, 1, 1, 1, 1, 1, 1, 1, 1, 1, 1, 1, 1, 1, 1, 1, 1, 1, 1, 1, 1, 1, 1, 1, 1, 1, 1, 1, 1, 1, 1, 1, 1, 1, 1, 1, 1, 1, 1, 1, 1, 1, 1, 1, 1, 1, 1, 1, 1, 1, 1, 1, 1, 1, 1, 1, 1, 1, 1, 1, 1, 1, 1, 1, 1, 1, 1, 1, 1, 1, 1, 1, 1, 1, 1, 1, 1, 1, 1, 1>>,
    <<1, 1, 1, 1, 1, 1, 1, 1, 1, 1, 1, 1, 1, 1, 1, 1, 1, 1, 1, 1, 1, 1, 1, 1, 1, 1, 1, 1, 1, 1, 1, 1, 1, 1, 1, 1, 1, 1, 1, 1, 1, 1, 1, 1, 1, 1, 1, 1, 1, 1, 1, 1, 1, 1, 1, 1, 1, 1, 1, 1, 1, 1, 1, 1, 1, 1, 1, 1, 1, 1, 1, 1, 1, 1, 1, 1, 1, 1, 1, 1, 1, 1, 1, 1, 1, 1, 1, 1, 1, 1, 1, 1, 1, 1, 1, 1, 1>>,
    <<1, 1, 1, 1, 1, 1, 1, 1, 1, 1, 1, 1, 1, 1, 1, 1, 1, 1, 1, 1, 1, 1, 1, 1, 1, 1, 1, 1, 1, 1, 1, 1, 1, 1, 1, 1, 1, 1, 1, 1, 1, 1, 1, 1, 1, 1, 1, 1, 1, 1, 1, 1, 1, 1, 1, 1, 1, 1, 1, 1, 1, 1, 1, 1, 1, 1, 1, 1, 1, 1, 1, 1, 1, 1, 1, 1, 1, 1, 1, 1, 1, 1, 1, 1, 1, 1, 1, 1, 1, 1, 1, 1, 1, 1, 1, 1, 1>>,
    <<1, 1, 1, 1, 1, 1, 1, 1, 1, 1, 1, 1, 1, 1, 1, 1, 1, 1, 1, 1, 1, 1, 1, 1, 1, 1, 1, 1, 1, 1, 1, 1, 1, 1, 1, 1, 1, 1, 1, 1, 1, 1, 1, 1, 1, 1, 1, 1, 1, 1, 1, 1, 1, 1, 1, 1, 1, 1, 1, 1, 1, 1, 1, 1, 1, 1, 1, 1, 1, 1, 1, 1, 1, 1, 1, 1, 1, 1, 1, 1, 1, 1, 1, 1, 1, 1, 1, 1, 1, 1, 1, 1, 1, 1, 1, 1, 1>>,
    <<1, 1, 1, 1, 1, 1, 1, 1, 1, 1, 1, 1, 1, 1, 1, 1, 1, 1, 1, 1, 1, 1, 1, 1, 1, 1, 1, 1, 1, 1, 1, 1, 1, 1, 1, 1, 1, 1, 1, 1, 1, 1, 1, 1, 1, 1, 1, 1, 1, 1, 1, 1, 1, 1, 1, 1, 1, 1, 1, 1, 1, 1, 1, 1, 1, 1, 1, 1, 1, 1, 1, 1, 1, 1, 1, 1, 1, 1, 1, 1, 1, 1, 1, 1, 1, 1, 1, 1, 1, 1, 1, 1, 1, 1, 1, 1, 1>>,
    <<1, 1, 1, 1, 1, 1, 1, 1, 1, 1, 1, 1, 1, 1, 1, 1, 1, 1, 1, 1, 1, 1, 1, 1, 1, 1, 1, 1, 1, 1, 1, 1, 1, 1, 1, 1, 1, 1, 1, 1, 1, 1, 1, 1, 1, 1, 1, 1, 1, 1, 1, 1, 1, 1, 1, 1, 1, 1, 1, 1, 1, 1, 1, 1, 1, 1, 1, 1, 1, 1, 1, 1, 1, 1, 1, 1, 1, 1, 1, 1, 1, 1, 1, 1, 1, 1, 1, 1, 1, 1, 1, 1, 1, 1, 1, 1, 1>>,
    <<1, 1, 1, 1, 1, 1, 1, 1, 1, 1, 1, 1, 1, 1, 1, 1, 1, 1, 1, 1, 1, 1, 1, 1, 1, 1, 1, 1, 1, 1, 1, 1, 1, 1, 1, 1, 1, 1, 1, 1, 1, 1, 1, 1, 1, 1, 1, 1, 1, 1, 1, 1, 1, 1, 1, 1, 1, 1, 1, 1, 1, 1, 1, 1, 1, 1, 1, 1, 1, 1, 1, 1, 1, 1, 1, 1, 1, 1, 1, 1, 1, 1, 1, 1, 1, 1, 1, 1, 1, 1, 1, 1, 1, 1, 1, 1, 1>>,
    <<1, 1, 1, 1, 1, 1, 1, 1, 1, 1, 1, 1, 1, 1, 1, 1, 1, 1, 1, 1, 1, 1, 1, 1, 1, 1, 1, 1, 1, 1, 1, 1, 1, 1, 1, 1, 1, 1, 1, 1, 1, 1, 1, 1, 1, 1, 1, 1, 1, 1, 1, 1, 1, 1, 1, 1, 1, 1, 1, 1, 1, 1, 1, 1, 1, 1, 1, 1, 1, 1, 1, 1, 1, 1, 1, 1, 1, 1, 1, 1, 1, 1, 1, 1, 1, 1, 1, 1, 1, 1, 1, 1, 1, 1, 1, 1, 1>>,
    <<1, 1, 1, 1, 1, 1, 1, 1, 1, 1, 1, 1, 1, 1, 1, 1, 1, 1, 1, 1, 1, 1, 1, 1, 1, 1, 1, 1, 1, 1, 1, 1, 1, 1, 1, 1, 1, 1, 1, 1, 1, 1, 1, 1, 1, 1, 1, 1, 1, 1, 1, 1, 1, 1, 1, 1, 1, 1, 1, 1, 1, 1, 1, 1, 1, 1, 1, 1, 1, 1, 1, 1, 1, 1, 1, 1, 1, 1, 1, 1, 1, 1, 1, 1, 1, 1, 1, 1, 1, 1, 1, 1, 1, 1, 1, 1, 1>>,
    <<1, 1, 1, 1, 1, 1, 1, 1, 1, 1, 1, 1, 1, 1, 1, 1, 1, 1, 1, 1, 1, 1, 1, 1, 1, 1, 1, 1, 1, 1, 1, 1, 1, 1, 1, 1, 1, 1, 1, 1, 1, 1, 1, 1, 1, 1, 1, 1, 1, 1, 1, 1, 1, 1, 1, 1, 1, 1, 1, 1, 1, 1, 1, 1, 1, 1, 1, 1, 1, 1, 1, 1, 1, 1, 1, 1, 1, 1, 1, 1, 1, 1, 1, 1, 1, 1, 1, 1, 1, 1, 1, 1, 1, 1, 1, 1, 1>>,
    <<1, 1, 1, 1, 1, 1, 1, 1, 1, 1, 1, 1, 1, 1, 1, 1, 1, 1, 1, 1, 1, 1, 1, 1, 1, 1, 1, 1, 1, 1, 1, 1, 1, 1, 1, 1, 1, 1, 1, 1, 1, 1, 1, 1, 1, 1, 1, 1, 1, 1, 1, 1, 1, 1, 1, 1, 1, 1, 1, 1, 1, 1, 1, 1, 1, 1, 1, 1, 1, 1, 1, 1, 1, 1, 1, 1, 1, 1, 1, 1, 1, 1, 1, 1, 1, 1, 1, 1, 1, 1, 1, 1, 1, 1, 1, 1, 1>>,
    <<1, 1, 1, 1, 1, 1, 1, 1, 1, 1, 1, 1, 1, 1, 1, 1, 1, 1, 1, 1, 1, 1, 1, 1, 1, 1, 1, 1, 1, 1, 1, 1, 1, 1, 1, 1, 1, 1, 1, 1, 1, 1, 1, 1, 1, 1, 1, 1, 1, 1, 1, 1, 1, 1, 1, 1, 1, 1, 1, 1, 1, 1, 1, 1, 1, 1, 1, 1, 1, 1, 1, 1, 1, 1, 1, 1, 1, 1, 1, 1, 1, 1, 1, 1, 1, 1, 1, 1, 1, 1, 1, 1, 1, 1, 1, 1, 1>>,
    <<1, 1, 1, 1, 1, 1, 1, 1, 1, 1, 1, 1, 1, 1, 1, 1, 1, 1, 1, 1, 1, 1, 1, 1, 1, 1, 1, 1, 1, 1, 1, 1, 1, 1, 1, 1, 1, 1, 1, 1, 1, 1, 1, 1, 1, 1, 1, 1, 1, 1, 1, 1, 1, 1, 1, 1, 1, 1, 1, 1, 1, 1, 1, 1, 1, 1, 1, 1, 1, 1, 1, 1, 1, 1, 1, 1, 1, 1, 1, 1, 1, 1, 1, 1, 1, 1, 1, 1, 1, 1, 1, 1, 1, 1, 1, 1, 1>>,
    <<1, 1, 1, 1, 1, 1, 1, 1, 1, 1, 1, 1, 1, 1, 1, 1, 1, 1, 1, 1, 1, 1, 1, 1, 1, 1, 1, 1, 1, 1, 1, 1, 1000, 1, 1, 1, 1, 1, 1, 1, 1, 1, 1, 1, 1, 1, 1, 1, 1, 1, 1, 1, 1, 1, 1, 1, 1, 1, 1, 1, 1, 1, 1, 1, 1, 1, 1, 1, 1, 1, 1, 1, 1, 1, 1, 1, 1, 1, 1, 1, 1, 1, 1, 1, 1, 1, 1, 1, 1, 1, 1, 1, 1, 1, 1, 1, 1>>,
    <<1, 1, 1, 1, 1, 1, 1, 1, 1, 1, 1, 1, 1, 1, 1, 1, 1, 1, 1, 1, 1, 1, 1, 1, 1, 2, 3, 3, 3, 4, 4, 5, 1000, 5, 4, 4, 3, 3, 3, 2, 1, 1, 1, 1, 1, 1, 1, 1, 1, 1, 1, 1, 1, 1, 1, 1, 1, 1, 1, 1, 1, 1, 1, 1, 1, 1, 1, 1, 1, 1, 1, 1, 1, 1, 1, 1, 1, 1, 1, 1, 1, 1, 1, 1, 1, 1, 1, 1, 1, 1, 1, 1, 1, 1, 1, 1, 1>>,
    <<1, 1, 1, 1, 1, 1, 1, 1, 1, 1, 1, 1, 1, 1, 1, 1, 1, 1, 1, 1, 1, 2, 2, 2, 3, 3, 3, 3, 4, 4, 4, 5, 1000, 5, 4, 4, 4, 3, 3, 3, 3, 2, 2, 2, 1, 1, 1, 1, 1, 1, 1, 1, 1, 1, 1, 1, 1, 1, 1, 1, 1, 1, 1, 1, 1, 1, 1, 1, 1, 1, 1, 1, 1, 1, 1, 1, 1, 1, 1, 1, 1, 1, 1, 1, 1, 1, 1, 1, 1, 1, 1, 1, 1, 1, 1, 1, 1>>,
    <<1, 1, 1, 1, 1, 1, 1, 1, 1, 1, 1, 1, 1, 1, 1, 1, 1, 1, 1, 2, 2, 2, 3, 3, 3, 3, 3, 3, 4, 4, 4, 6, 1000, 6, 4, 4, 4, 3, 3, 3, 3, 3, 3, 2, 2, 2, 1, 1, 1, 1, 1, 1, 1, 1, 1, 1, 1, 1, 1, 1, 1, 1, 1, 1, 1, 1, 1, 1, 1, 1, 1, 1, 1, 1, 1, 1, 1, 1, 1, 1, 1, 1, 1, 1, 1, 1, 1, 1, 1, 1, 1, 1, 1, 1, 1, 1, 1>>,
    <<1, 1, 1, 1, 1, 1, 1, 1, 1, 1, 1, 1, 1, 1, 1, 1, 1, 2, 2, 2, 2, 3, 3, 3, 3, 3, 3, 4, 4, 4, 4, 7, 1000, 7, 4, 4, 4, 4, 3, 3, 3, 3, 3, 3, 2, 2, 2, 2, 1, 1, 1, 1, 1, 1, 1, 1, 1, 1, 1, 1, 1, 1, 1, 1, 1, 1, 1, 1, 1, 1, 1, 1, 1, 1, 1, 1, 1, 1, 1, 1, 1, 1, 1, 1, 1, 1, 1, 1, 1, 1, 1, 1, 1, 1, 1, 1, 1>>,
    <<1, 1, 1, 1, 1, 1, 1, 1, 1, 1, 1, 1, 1, 1, 1, 2, 2, 2, 2, 3, 3, 3, 3, 3, 3, 3, 3, 4, 4, 4, 5, 6, 1000, 6, 5, 4, 4, 4, 3, 3, 3, 3, 3, 3, 3, 3, 2, 2, 2, 2, 1, 1, 1, 1, 1, 1, 1, 1, 1, 1, 1, 1, 1, 1, 1, 1, 1, 1, 1, 1, 1, 1, 1, 1, 1, 1, 1, 1, 1, 1, 1, 1, 1, 1, 1, 1, 1, 1, 1, 1, 1, 1, 1, 1, 1, 1, 1>>,
    <<1, 1, 1, 1, 1, 1, 1, 1, 1, 1, 1, 1, 1, 1, 2, 2, 2, 2, 3, 3, 3, 3, 3, 3, 3, 3, 4, 4, 4, 5, 6, 6, 1000, 6, 6, 5, 4, 4, 4, 3, 3, 3, 3, 3, 3, 3, 3, 2, 2, 2, 2, 1, 1, 1, 1, 1, 1, 1, 1, 1, 1, 1, 1, 1, 1, 1, 1, 1, 1, 1, 1, 1, 1, 1, 1, 1, 1, 1, 1, 1, 1, 1, 1, 1, 1, 1, 1, 1, 1, 1, 1, 1, 1, 1, 1, 1, 1>>,
    <<1, 1, 1, 1, 1, 1, 1, 1, 1, 1, 1, 1, 1, 2, 2, 2, 2, 3, 3, 3, 3, 3, 3, 3, 3, 3, 4, 4, 5, 5, 6, 7, 1000, 7, 6, 5, 5, 4, 4, 3, 3, 3, 3, 3, 3, 3, 3, 3, 2, 2, 2, 2, 1, 1, 1, 1, 1, 1, 1, 1, 1, 1, 1, 1, 1, 1, 1, 1, 1, 1, 1, 1, 1, 1, 1, 1, 1, 1, 1, 1, 1, 1, 1, 1, 1, 1, 1, 1, 1, 1, 1, 1, 1, 1, 1, 1, 1>>,
    <<1, 1, 1, 1, 1, 1, 1, 1, 1, 1, 1, 2, 2, 2, 2, 2, 2, 3, 3, 3, 3, 3, 3, 3, 3, 3, 4, 5, 5, 5, 7, 7, 1000, 7, 7, 5, 5, 5, 4, 3, 3, 3, 3, 3, 3, 3, 3, 3, 2, 2, 2, 2, 2, 2, 1, 1, 1, 1, 1, 1, 1, 1, 1, 1, 1, 1, 1, 1, 1, 1, 1, 1, 1, 1, 1, 1, 1, 1, 1, 1, 1, 1, 1, 1, 1, 1, 1, 1, 1, 1, 1, 1, 1, 1, 1, 1, 1>>,
    <<1, 1, 1, 1, 1, 1, 1, 1, 1, 1, 2, 2, 2, 2, 2, 2, 3, 3, 3, 3, 3, 3, 3, 3, 3, 4, 5, 5, 5, 6, 8, 9, 1000, 9, 8, 6, 5, 5, 5, 4, 3, 3, 3, 3, 3, 3, 3, 3, 3, 2, 2, 2, 2, 2, 2, 1, 1, 1, 1, 1, 1, 1, 1, 1, 1, 1, 1, 1, 1, 1, 1, 1, 1, 1, 1, 1, 1, 1, 1, 1, 1, 1, 1, 1, 1, 1, 1, 1, 1, 1, 1, 1, 1, 1, 1, 1, 1>>,
    <<1, 1, 1, 1, 1, 1, 1, 1, 1, 2, 2, 2, 2, 2, 2, 3, 3, 3, 3, 3, 3, 3, 3, 3, 3, 4, 5, 6, 6, 7, 11, 17, 1000, 17, 11, 7, 6, 6, 5, 4, 3, 3, 3, 3, 3, 3, 3, 3, 3, 3, 2, 2, 2, 2, 2, 2, 1, 1, 1, 1, 1, 1, 1, 1, 1, 1, 1, 1, 1, 1, 1, 1, 1, 1, 1, 1, 1, 1, 1, 1, 1, 1, 1, 1, 1, 1, 1, 1, 1, 1, 1, 1, 1, 1, 1, 1, 1>>,
    <<1, 1, 1, 1, 1, 1, 1, 1, 2, 2, 2, 2, 2, 2, 2, 3, 3, 3, 3, 3, 3, 3, 3, 3, 4, 6, 6, 7, 7, 8, 11, 1000, 1000, 1000, 11, 8, 7, 7, 6, 6, 4, 3, 3, 3, 3, 3, 3, 3, 3, 3, 2, 2, 2, 2, 2, 2, 2, 1, 1, 1, 1, 1, 1, 1, 1, 1, 1, 1, 1, 1, 1, 1, 1, 1, 1, 1, 1, 1, 1, 1, 1, 1, 1, 1, 1, 1, 1, 1, 1, 1, 1, 1, 1, 1, 1, 1, 1>>,
    <<1, 1, 1, 1, 1, 1, 1, 1, 2, 2, 2, 2, 2, 2, 3, 3, 3, 3, 3, 3, 3, 3, 3, 3, 4, 7, 14, 11, 9, 13, 19, 84, 1000, 84, 19, 13, 9, 11, 14, 7, 4, 3, 3, 3, 3, 3, 3, 3, 3, 3, 3, 2, 2, 2, 2, 2, 2, 1, 1, 1, 1, 1, 1, 1, 1, 1, 1, 1, 1, 1, 1, 1, 1, 1, 1, 1, 1, 1, 1, 1, 1, 1, 1, 1, 1, 1, 1, 1, 1, 1, 1, 1, 1, 1, 1, 1, 1>>,
    <<1, 1, 1, 1, 1, 1, 1, 2, 2, 2, 2, 2, 2, 2, 3, 3, 3, 3, 3, 3, 3, 3, 3, 4, 5, 6, 8, 19, 24, 96, 1000, 1000, 1000, 1000, 1000, 96, 24, 19, 8, 6, 5, 4, 3, 3, 3, 3, 3, 3, 3, 3, 3, 2, 2, 2, 2, 2, 2, 2, 1, 1, 1, 1, 1, 1, 1, 1, 1, 1, 1, 1, 1, 1, 1, 1, 1, 1, 1, 1, 1, 1, 1, 1, 1, 1, 1, 1, 1, 1, 1, 1, 1, 1, 1, 1, 1, 1, 1>>,
    <<1, 1, 1, 1, 1, 1, 2, 2, 2, 2, 2, 2, 2, 3, 3, 3, 3, 3, 3, 3, 3, 3, 4, 4, 5, 6, 7, 12, 1000, 1000, 1000, 1000, 1000, 1000, 1000, 1000, 1000, 12, 7, 6, 5, 4, 4, 3, 3, 3, 3, 3, 3, 3, 3, 3, 2, 2, 2, 2, 2, 2, 2, 1, 1, 1, 1, 1, 1, 1, 1, 1, 1, 1, 1, 1, 1, 1, 1, 1, 1, 1, 1, 1, 1, 1, 1, 1, 1, 1, 1, 1, 1, 1, 1, 1, 1, 1, 1, 1, 1>>,
    <<1, 1, 1, 1, 1, 2, 2, 2, 2, 2, 2, 2, 2, 3, 3, 3, 3, 3, 3, 3, 3, 4, 4, 5, 5, 5, 8, 11, 1000, 1000, 1000, 1000, 1000, 1000, 1000, 1000, 1000, 11, 8, 5, 5, 5, 4, 4, 3, 3, 3, 3, 3, 3, 3, 3, 2, 2, 2, 2, 2, 2, 2, 2, 1, 1, 1, 1, 1, 1, 1, 1, 1, 1, 1, 1, 1, 1, 1, 1, 1, 1, 1, 1, 1, 1, 1, 1, 1, 1, 1, 1, 1, 1, 1, 1, 1, 1, 1, 1, 1>>,
    <<1, 1, 1, 1, 1, 2, 2, 2, 2, 2, 2, 2, 2, 3, 3, 3, 3, 3, 3, 3, 3, 4, 4, 5, 5, 6, 8, 20, 1000, 1000, 1000, 1000, 1000, 1000, 1000, 1000, 1000, 20, 8, 6, 5, 5, 4, 4, 3, 3, 3, 3, 3, 3, 3, 3, 2, 2, 2, 2, 2, 2, 2, 2, 1, 1, 1, 1, 1, 1, 1, 1, 1, 1, 1, 1, 1, 1, 1, 1, 1, 1, 1, 1, 1, 1, 1, 1, 1, 1, 1, 1, 1, 1, 1, 1, 1, 1, 1, 1, 1>>,
    <<1, 1, 1, 1, 2, 2, 2, 2, 2, 2, 2, 2, 3, 3, 3, 3, 3, 3, 3, 3, 4, 4, 4, 5, 5, 6, 7, 15, 35, 1000, 1000, 1000, 1000, 1000, 1000, 1000, 35, 15, 7, 6, 5, 5, 4, 4, 4, 3, 3, 3, 3, 3, 3, 3, 3, 2, 2, 2, 2, 2, 2, 2, 2, 1, 1, 1, 1, 1, 1, 1, 1, 1, 1, 1, 1, 1, 1, 1, 1, 1, 1, 1, 1, 1, 1, 1, 1, 1, 1, 1, 1, 1, 1, 1, 1, 1, 1, 1, 1>>,
    <<1, 1, 1, 1, 2, 2, 2, 2, 2, 2, 2, 2, 3, 3, 3, 3, 3, 3, 3, 4, 4, 4, 5, 5, 5, 6, 7, 9, 24, 1000, 1000, 1000, 1000, 1000, 1000, 1000, 24, 9, 7, 6, 5, 5, 5, 4, 4, 4, 3, 3, 3, 3, 3, 3, 3, 2, 2, 2, 2, 2, 2, 2, 2, 1, 1, 1, 1, 1, 1, 1, 1, 1, 1, 1, 1, 1, 1, 1, 1, 1, 1, 1, 1, 1, 1, 1, 1, 1, 1, 1, 1, 1, 1, 1, 1, 1, 1, 1, 1>>,
    <<1, 1, 1, 2, 2, 2, 2, 2, 2, 2, 2, 2, 3, 3, 3, 3, 3, 3, 4, 4, 4, 4, 5, 5, 6, 7, 8, 9, 11, 50, 1000, 1000, 1000, 1000, 1000, 50, 11, 9, 8, 7, 6, 5, 5, 4, 4, 4, 4, 3, 3, 3, 3, 3, 3, 2, 2, 2, 2, 2, 2, 2, 2, 2, 1, 1, 1, 1, 1, 1, 1, 1, 1, 1, 1, 1, 1, 1, 1, 1, 1, 1, 1, 1, 1, 1, 1, 1, 1, 1, 1, 1, 1, 1, 1, 1, 1, 1, 1>>,
    <<1, 1, 1, 2, 2, 2, 2, 2, 2, 2, 2, 2, 3, 3, 3, 3, 3, 4, 4, 4, 4, 5, 5, 6, 6, 8, 8, 10, 13, 17, 26, 51, 1000, 51, 26, 17, 13, 10, 8, 8, 6, 6, 5, 5, 4, 4, 4, 4, 3, 3, 3, 3, 3, 2, 2, 2, 2, 2, 2, 2, 2, 2, 1, 1, 1, 1, 1, 1, 1, 1, 1, 1, 1, 1, 1, 1, 1, 1, 1, 1, 1, 1, 1, 1, 1, 1, 1, 1, 1, 1, 1, 1, 1, 1, 1, 1, 1>>,
    <<1, 1, 2, 2, 2, 2, 2, 2, 2, 2, 2, 3, 3, 3, 3, 3, 3, 4, 4, 4, 4, 5, 6, 7, 9, 16, 21, 84, 1000, 1000, 1000, 1000, 1000, 1000, 1000, 1000, 1000, 84, 21, 16, 9, 7, 6, 5, 4, 4, 4, 4, 3, 3, 3, 3, 3, 3, 2, 2, 2, 2, 2, 2, 2, 2, 2, 1, 1, 1, 1, 1, 1, 1, 1, 1, 1, 1, 1, 1, 1, 1, 1, 1, 1, 1, 1, 1, 1, 1, 1, 1, 1, 1, 1, 1, 1, 1, 1, 1, 1>>,
    <<1, 1, 2, 2, 2, 2, 2, 2, 2, 2, 2, 3, 3, 3, 3, 3, 4, 4, 4, 4, 5, 12, 9, 9, 12, 1000, 1000, 1000, 1000, 1000, 1000, 1000, 1000, 1000, 1000, 1000, 1000, 1000, 1000, 1000, 12, 9, 9, 12, 5, 4, 4, 4, 4, 3, 3, 3, 3, 3, 2, 2, 2, 2, 2, 2, 2, 2, 2, 1, 1, 1, 1, 1, 1, 1, 1, 1, 1, 1, 1, 1, 1, 1, 1, 1, 1, 1, 1, 1, 1, 1, 1, 1, 1, 1, 1, 1, 1, 1, 1, 1, 1>>,
    <<1, 1, 2, 2, 2, 2, 2, 2, 2, 2, 2, 3, 3, 3, 3, 4, 4, 4, 4, 5, 6, 9, 22, 32, 18, 1000, 1000, 1000, 1000, 1000, 1000, 1000, 1000, 1000, 1000, 1000, 1000, 1000, 1000, 1000, 18, 32, 22, 9, 6, 5, 4, 4, 4, 4, 3, 3, 3, 3, 2, 2, 2, 2, 2, 2, 2, 2, 2, 1, 1, 1, 1, 1, 1, 1, 1, 1, 1, 1, 1, 1, 1, 1, 1, 1, 1, 1, 1, 1, 1, 1, 1, 1, 1, 1, 1, 1, 1, 1, 1, 1, 1>>,
    <<1, 1, 2, 2, 2, 2, 2, 2, 2, 2, 2, 3, 3, 3, 3, 4, 4, 4, 4, 5, 6, 10, 20, 1000, 1000, 1000, 1000, 1000, 1000, 1000, 1000, 1000, 1000, 1000, 1000, 1000, 1000, 1000, 1000, 1000, 1000, 1000, 20, 10, 6, 5, 4, 4, 4, 4, 3, 3, 3, 3, 2, 2, 2, 2, 2, 2, 2, 2, 2, 1, 1, 1, 1, 1, 1, 1, 1, 1, 1, 1, 1, 1, 1, 1, 1, 1, 1, 1, 1, 1, 1, 1, 1, 1, 1, 1, 1, 1, 1, 1, 1, 1, 1>>,
    <<1, 2, 2, 2, 2, 2, 2, 2, 2, 2, 2, 3, 3, 3, 4, 4, 4, 4, 5, 6, 6, 8, 12, 234, 1000, 1000, 1000, 1000, 1000, 1000, 1000, 1000, 1000, 1000, 1000, 1000, 1000, 1000, 1000, 1000, 1000, 234, 12, 8, 6, 6, 5, 4, 4, 4, 4, 3, 3, 3, 2, 2, 2, 2, 2, 2, 2, 2, 2, 2, 1, 1, 1, 1, 1, 1, 1, 1, 1, 1, 1, 1, 1, 1, 1, 1, 1, 1, 1, 1, 1, 1, 1, 1, 1, 1, 1, 1, 1, 1, 1, 1, 1>>,
    <<1, 2, 2, 2, 2, 2, 2, 2, 2, 2, 2, 3, 3, 3, 4, 4, 5, 5, 5, 6, 7, 10, 154, 1000, 1000, 1000, 1000, 1000, 1000, 1000, 1000, 1000, 1000, 1000, 1000, 1000, 1000, 1000, 1000, 1000, 1000, 1000, 154, 10, 7, 6, 5, 5, 5, 4, 4, 3, 3, 3, 2, 2, 2, 2, 2, 2, 2, 2, 2, 2, 1, 1, 1, 1, 1, 1, 1, 1, 1, 1, 1, 1, 1, 1, 1, 1, 1, 1, 1, 1, 1, 1, 1, 1, 1, 1, 1, 1, 1, 1, 1, 1, 1>>,
    <<1, 2, 2, 2, 2, 2, 2, 2, 2, 2, 2, 3, 3, 3, 4, 5, 5, 5, 6, 8, 8, 10, 308, 1000, 1000, 1000, 1000, 1000, 1000, 1000, 1000, 1000, 1000, 1000, 1000, 1000, 1000, 1000, 1000, 1000, 1000, 1000, 308, 10, 8, 8, 6, 5, 5, 5, 4, 3, 3, 3, 2, 2, 2, 2, 2, 2, 2, 2, 2, 2, 1, 1, 1, 1, 1, 1, 1, 1, 1, 1, 1, 1, 1, 1, 1, 1, 1, 1, 1, 1, 1, 1, 1, 1, 1, 1, 1, 1, 1, 1, 1, 1, 1>>,
    <<1, 2, 2, 2, 2, 2, 2, 2, 2, 2, 2, 2, 3, 3, 5, 6, 6, 7, 13, 17, 22, 14, 1000, 1000, 1000, 1000, 1000, 1000, 1000, 1000, 1000, 1000, 1000, 1000, 1000, 1000, 1000, 1000, 1000, 1000, 1000, 1000, 1000, 14, 22, 17, 13, 7, 6, 6, 5, 3, 3, 2, 2, 2, 2, 2, 2, 2, 2, 2, 2, 2, 1, 1, 1, 1, 1, 1, 1, 1, 1, 1, 1, 1, 1, 1, 1, 1, 1, 1, 1, 1, 1, 1, 1, 1, 1, 1, 1, 1, 1, 1, 1, 1, 1>>,
    <<1, 2, 2, 2, 2, 2, 2, 2, 2, 2, 2, 2, 3, 3, 6, 9, 8, 8, 11, 1000, 1000, 1000, 1000, 1000, 1000, 1000, 1000, 1000, 1000, 1000, 1000, 1000, 1000, 1000, 1000, 1000, 1000, 1000, 1000, 1000, 1000, 1000, 1000, 1000, 1000, 1000, 11, 8, 8, 9, 6, 3, 3, 2, 2, 2, 2, 2, 2, 2, 2, 2, 2, 2, 1, 1, 1, 1, 1, 1, 1, 1, 1, 1, 1, 1, 1, 1, 1, 1, 1, 1, 1, 1, 1, 1, 1, 1, 1, 1, 1, 1, 1, 1, 1, 1, 1>>,
    <<1, 2, 2, 2, 2, 2, 2, 2, 2, 2, 2, 2, 3, 3, 5, 7, 13, 13, 1000, 1000, 1000, 1000, 1000, 1000, 1000, 1000, 1000, 1000, 1000, 1000, 1000, 1000, 1000, 1000, 1000, 1000, 1000, 1000, 1000, 1000, 1000, 1000, 1000, 1000, 1000, 1000, 1000, 13, 13, 7, 5, 3, 3, 2, 2, 2, 2, 2, 2, 2, 2, 2, 2, 2, 1, 1, 1, 1, 1, 1, 1, 1, 1, 1, 1, 1, 1, 1, 1, 1, 1, 1, 1, 1, 1, 1, 1, 1, 1, 1, 1, 1, 1, 1, 1, 1, 1>>,
    <<1, 2, 2, 2, 2, 2, 2, 2, 2, 2, 2, 2, 3, 3, 4, 6, 20, 10, 16, 1000, 1000, 1000, 1000, 1000, 1000, 1000, 1000, 1000, 1000, 1000, 1000, 1000, 1000, 1000, 1000, 1000, 1000, 1000, 1000, 1000, 1000, 1000, 1000, 1000, 1000, 1000, 16, 10, 20, 6, 4, 3, 3, 2, 2, 2, 2, 2, 2, 2, 2, 2, 2, 2, 1, 1, 1, 1, 1, 1, 1, 1, 1, 1, 1, 1, 1, 1, 1, 1, 1, 1, 1, 1, 1, 1, 1, 1, 1, 1, 1, 1, 1, 1, 1, 1, 1>>,
    <<2, 2, 2, 2, 2, 2, 2, 2, 2, 2, 2, 2, 2, 3, 4, 5, 1000, 7, 9, 40, 34, 13, 1000, 1000, 1000, 1000, 1000, 1000, 1000, 1000, 1000, 1000, 1000, 1000, 1000, 1000, 1000, 1000, 1000, 1000, 1000, 1000, 1000, 13, 34, 40, 9, 7, 1000, 5, 4, 3, 2, 2, 2, 2, 2, 2, 2, 2, 2, 2, 2, 2, 2, 1, 1, 1, 1, 1, 1, 1, 1, 1, 1, 1, 1, 1, 1, 1, 1, 1, 1, 1, 1, 1, 1, 1, 1, 1, 1, 1, 1, 1, 1, 1, 1>>,
    <<1, 2, 2, 2, 2, 2, 2, 2, 2, 2, 2, 2, 2, 3, 4, 4, 4, 5, 6, 7, 8, 10, 107, 1000, 1000, 1000, 1000, 1000, 1000, 1000, 1000, 1000, 1000, 1000, 1000, 1000, 1000, 1000, 1000, 1000, 1000, 1000, 107, 10, 8, 7, 6, 5, 4, 4, 4, 3, 2, 2, 2, 2, 2, 2, 2, 2, 2, 2, 2, 2, 1, 1, 1, 1, 1, 1, 1, 1, 1, 1, 1, 1, 1, 1, 1, 1, 1, 1, 1, 1, 1, 1, 1, 1, 1, 1, 1, 1, 1, 1, 1, 1, 1>>,
    <<1, 2, 2, 2, 2, 2, 2, 2, 2, 2, 2, 2, 2, 3, 3, 4, 4, 4, 5, 5, 7, 11, 1000, 1000, 1000, 1000, 1000, 1000, 1000, 1000, 1000, 1000, 1000, 1000, 1000, 1000, 1000, 1000, 1000, 1000, 1000, 1000, 1000, 11, 7, 5, 5, 4, 4, 4, 3, 3, 2, 2, 2, 2, 2, 2, 2, 2, 2, 2, 2, 2, 1, 1, 1, 1, 1, 1, 1, 1, 1, 1, 1, 1, 1, 1, 1, 1, 1, 1, 1, 1, 1, 1, 1, 1, 1, 1, 1, 1, 1, 1, 1, 1, 1>>,
    <<1, 2, 2, 2, 2, 2, 2, 2, 2, 2, 2, 2, 2, 2, 3, 4, 4, 4, 5, 5, 6, 7, 10, 29, 1000, 1000, 1000, 1000, 1000, 1000, 1000, 1000, 1000, 1000, 1000, 1000, 1000, 1000, 1000, 1000, 1000, 29, 10, 7, 6, 5, 5, 4, 4, 4, 3, 2, 2, 2, 2, 2, 2, 2, 2, 2, 2, 2, 2, 2, 1, 1, 1, 1, 1, 1, 1, 1, 1, 1, 1, 1, 1, 1, 1, 1, 1, 1, 1, 1, 1, 1, 1, 1, 1, 1, 1, 1, 1, 1, 1, 1, 1>>,
    <<1, 2, 2, 2, 2, 2, 2, 2, 2, 2, 2, 2, 2, 2, 3, 3, 4, 4, 4, 5, 5, 6, 17, 1000, 1000, 1000, 1000, 1000, 1000, 1000, 1000, 1000, 1000, 1000, 1000, 1000, 1000, 1000, 1000, 1000, 1000, 1000, 17, 6, 5, 5, 4, 4, 4, 3, 3, 2, 2, 2, 2, 2, 2, 2, 2, 2, 2, 2, 2, 2, 1, 1, 1, 1, 1, 1, 1, 1, 1, 1, 1, 1, 1, 1, 1, 1, 1, 1, 1, 1, 1, 1, 1, 1, 1, 1, 1, 1, 1, 1, 1, 1, 1>>,
    <<1, 2, 2, 2, 2, 2, 2, 2, 2, 2, 2, 2, 2, 2, 2, 3, 3, 4, 4, 4, 5, 7, 10, 103, 1000, 64, 1000, 1000, 1000, 1000, 1000, 1000, 11, 1000, 1000, 1000, 1000, 1000, 1000, 64, 1000, 103, 10, 7, 5, 4, 4, 4, 3, 3, 2, 2, 2, 2, 2, 2, 2, 2, 2, 2, 2, 2, 2, 2, 1, 1, 1, 1, 1, 1, 1, 1, 1, 1, 1, 1, 1, 1, 1, 1, 1, 1, 1, 1, 1, 1, 1, 1, 1, 1, 1, 1, 1, 1, 1, 1, 1>>,
    <<1, 2, 2, 2, 2, 2, 2, 2, 2, 2, 2, 2, 2, 2, 2, 3, 3, 3, 4, 4, 4, 9, 11, 13, 9, 9, 17, 361, 1000, 619, 17, 8, 7, 8, 17, 619, 1000, 361, 17, 9, 9, 13, 11, 9, 4, 4, 4, 3, 3, 3, 2, 2, 2, 2, 2, 2, 2, 2, 2, 2, 2, 2, 2, 2, 1, 1, 1, 1, 1, 1, 1, 1, 1, 1, 1, 1, 1, 1, 1, 1, 1, 1, 1, 1, 1, 1, 1, 1, 1, 1, 1, 1, 1, 1, 1, 1, 1>>,
    <<1, 2, 2, 2, 2, 2, 2, 2, 2, 2, 2, 2, 2, 2, 2, 2, 3, 3, 3, 3, 4, 4, 5, 6, 6, 7, 38, 11, 13, 8, 6, 6, 6, 6, 6, 8, 13, 11, 38, 7, 6, 6, 5, 4, 4, 3, 3, 3, 3, 2, 2, 2, 2, 2, 2, 2, 2, 2, 2, 2, 2, 2, 2, 2, 1, 1, 1, 1, 1, 1, 1, 1, 1, 1, 1, 1, 1, 1, 1, 1, 1, 1, 1, 1, 1, 1, 1, 1, 1, 1, 1, 1, 1, 1, 1, 1, 1>>,
    <<1, 1, 2, 2, 2, 2, 2, 2, 2, 2, 2, 2, 2, 2, 2, 2, 2, 3, 3, 3, 3, 4, 4, 5, 5, 5, 5, 6, 5, 5, 5, 5, 5, 5, 5, 5, 5, 6, 5, 5, 5, 5, 4, 4, 3, 3, 3, 3, 2, 2, 2, 2, 2, 2, 2, 2, 2, 2, 2, 2, 2, 2, 2, 1, 1, 1, 1, 1, 1, 1, 1, 1, 1, 1, 1, 1, 1, 1, 1, 1, 1, 1, 1, 1, 1, 1, 1, 1, 1, 1, 1, 1, 1, 1, 1, 1, 1>>,
    <<1, 1, 2, 2, 2, 2, 2, 2, 2, 2, 2, 2, 2, 2, 2, 2, 2, 3, 3, 3, 3, 3, 3, 4, 4, 4, 4, 4, 4, 4, 4, 4, 4, 4, 4, 4, 4, 4, 4, 4, 4, 4, 3, 3, 3, 3, 3, 3, 2, 2, 2, 2, 2, 2, 2, 2, 2, 2, 2, 2, 2, 2, 2, 1, 1, 1, 1, 1, 1, 1, 1, 1, 1, 1, 1, 1, 1, 1, 1, 1, 1, 1, 1, 1, 1, 1, 1, 1, 1, 1, 1, 1, 1, 1, 1, 1, 1>>,
    <<1, 1, 2, 2, 2, 2, 2, 2, 2, 2, 2, 2, 2, 2, 2, 2, 2, 2, 3, 3, 3, 3, 3, 3, 3, 3, 4, 4, 4, 4, 4, 4, 4, 4, 4, 4, 4, 4, 4, 3, 3, 3, 3, 3, 3, 3, 3, 2, 2, 2, 2, 2, 2, 2, 2, 2, 2, 2, 2, 2, 2, 2, 2, 1, 1, 1, 1, 1, 1, 1, 1, 1, 1, 1, 1, 1, 1, 1, 1, 1, 1, 1, 1, 1, 1, 1, 1, 1, 1, 1, 1, 1, 1, 1, 1, 1, 1>>,
    <<1, 1, 2, 2, 2, 2, 2, 2, 2, 2, 2, 2, 2, 2, 2, 2, 2, 2, 2, 3, 3, 3, 3, 3, 3, 3, 3, 3, 3, 3, 3, 3, 3, 3, 3, 3, 3, 3, 3, 3, 3, 3, 3, 3, 3, 3, 2, 2, 2, 2, 2, 2, 2, 2, 2, 2, 2, 2, 2, 2, 2, 2, 2, 1, 1, 1, 1, 1, 1, 1, 1, 1, 1, 1, 1, 1, 1, 1, 1, 1, 1, 1, 1, 1, 1, 1, 1, 1, 1, 1, 1, 1, 1, 1, 1, 1, 1>>,
    <<1, 1, 1, 2, 2, 2, 2, 2, 2, 2, 2, 2, 2, 2, 2, 2, 2, 2, 2, 2, 2, 3, 3, 3, 3, 3, 3, 3, 3, 3, 3, 3, 3, 3, 3, 3, 3, 3, 3, 3, 3, 3, 3, 3, 2, 2, 2, 2, 2, 2, 2, 2, 2, 2, 2, 2, 2, 2, 2, 2, 2, 2, 1, 1, 1, 1, 1, 1, 1, 1, 1, 1, 1, 1, 1, 1, 1, 1, 1, 1, 1, 1, 1, 1, 1, 1, 1, 1, 1, 1, 1, 1, 1, 1, 1, 1, 1>>,
    <<1, 1, 1, 2, 2, 2, 2, 2, 2, 2, 2, 2, 2, 2, 2, 2, 2, 2, 2, 2, 2, 2, 3, 3, 3, 3, 3, 3, 3, 3, 3, 3, 3, 3, 3, 3, 3, 3, 3, 3, 3, 3, 3, 2, 2, 2, 2, 2, 2, 2, 2, 2, 2, 2, 2, 2, 2, 2, 2, 2, 2, 2, 1, 1, 1, 1, 1, 1, 1, 1, 1, 1, 1, 1, 1, 1, 1, 1, 1, 1, 1, 1, 1, 1, 1, 1, 1, 1, 1, 1, 1, 1, 1, 1, 1, 1, 1>>,
    <<1, 1, 1, 1, 2, 2, 2, 2, 2, 2, 2, 2, 2, 2, 2, 2, 2, 2, 2, 2, 2, 2, 2, 2, 3, 3, 3, 3, 3, 3, 3, 3, 3, 3, 3, 3, 3, 3, 3, 3, 3, 2, 2, 2, 2, 2, 2, 2, 2, 2, 2, 2, 2, 2, 2, 2, 2, 2, 2, 2, 2, 1, 1, 1, 1, 1, 1, 1, 1, 1, 1, 1, 1, 1, 1, 1, 1, 1, 1, 1, 1, 1, 1, 1, 1, 1, 1, 1, 1, 1, 1, 1, 1, 1, 1, 1, 1>>,
    <<1, 1, 1, 1, 2, 2, 2, 2, 2, 2, 2, 2, 2, 2, 2, 2, 2, 2, 2, 2, 2, 2, 2, 2, 2, 2, 3, 3, 3, 3, 3, 3, 3, 3, 3, 3, 3, 3, 3, 2, 2, 2, 2, 2, 2, 2, 2, 2, 2, 2, 2, 2, 2, 2, 2, 2, 2, 2, 2, 2, 2, 1, 1, 1, 1, 1, 1, 1, 1, 1, 1, 1, 1, 1, 1, 1, 1, 1, 1, 1, 1, 1, 1, 1, 1, 1, 1, 1, 1, 1, 1, 1, 1, 1, 1, 1, 1>>,
    <<1, 1, 1, 1, 1, 2, 2, 2, 2, 2, 2, 2, 2, 2, 2, 2, 2, 2, 2, 2, 2, 2, 2, 2, 2, 2, 2, 2, 2, 2, 2, 2, 3, 2, 2, 2, 2, 2, 2, 2, 2, 2, 2, 2, 2, 2, 2, 2, 2, 2, 2, 2, 2, 2, 2, 2, 2, 2, 2, 2, 1, 1, 1, 1, 1, 1, 1, 1, 1, 1, 1, 1, 1, 1, 1, 1, 1, 1, 1, 1, 1, 1, 1, 1, 1, 1, 1, 1, 1, 1, 1, 1, 1, 1, 1, 1, 1>>,
    <<1, 1, 1, 1, 1, 2, 2, 2, 2, 2, 2, 2, 2, 2, 2, 2, 2, 2, 2, 2, 2, 2, 2, 2, 2, 2, 2, 2, 2, 2, 2, 2, 2, 2, 2, 2, 2, 2, 2, 2, 2, 2, 2, 2, 2, 2, 2, 2, 2, 2, 2, 2, 2, 2, 2, 2, 2, 2, 2, 2, 1, 1, 1, 1, 1, 1, 1, 1, 1, 1, 1, 1, 1, 1, 1, 1, 1, 1, 1, 1, 1, 1, 1, 1, 1, 1, 1, 1, 1, 1, 1, 1, 1, 1, 1, 1, 1>>,
    <<1, 1, 1, 1, 1, 1, 2, 2, 2, 2, 2, 2, 2, 2, 2, 2, 2, 2, 2, 2, 2, 2, 2, 2, 2, 2, 2, 2, 2, 2, 2, 2, 2, 2, 2, 2, 2, 2, 2, 2, 2, 2, 2, 2, 2, 2, 2, 2, 2, 2, 2, 2, 2, 2, 2, 2, 2, 2, 2, 1, 1, 1, 1, 1, 1, 1, 1, 1, 1, 1, 1, 1, 1, 1, 1, 1, 1, 1, 1, 1, 1, 1, 1, 1, 1, 1, 1, 1, 1, 1, 1, 1, 1, 1, 1, 1, 1>>,
    <<1, 1, 1, 1, 1, 1, 1, 2, 2, 2, 2, 2, 2, 2, 2, 2, 2, 2, 2, 2, 2, 2, 2, 2, 2, 2, 2, 2, 2, 2, 2, 2, 2, 2, 2, 2, 2, 2, 2, 2, 2, 2, 2, 2, 2, 2, 2, 2, 2, 2, 2, 2, 2, 2, 2, 2, 2, 2, 1, 1, 1, 1, 1, 1, 1, 1, 1, 1, 1, 1, 1, 1, 1, 1, 1, 1, 1, 1, 1, 1, 1, 1, 1, 1, 1, 1, 1, 1, 1, 1, 1, 1, 1, 1, 1, 1, 1>>,
    <<1, 1, 1, 1, 1, 1, 1, 1, 2, 2, 2, 2, 2, 2, 2, 2, 2, 2, 2, 2, 2, 2, 2, 2, 2, 2, 2, 2, 2, 2, 2, 2, 2, 2, 2, 2, 2, 2, 2, 2, 2, 2, 2, 2, 2, 2, 2, 2, 2, 2, 2, 2, 2, 2, 2, 2, 2, 1, 1, 1, 1, 1, 1, 1, 1, 1, 1, 1, 1, 1, 1, 1, 1, 1, 1, 1, 1, 1, 1, 1, 1, 1, 1, 1, 1, 1, 1, 1, 1, 1, 1, 1, 1, 1, 1, 1, 1>>,
    <<1, 1, 1, 1, 1, 1, 1, 1, 2, 2, 2, 2, 2, 2, 2, 2, 2, 2, 2, 2, 2, 2, 2, 2, 2, 2, 2, 2, 2, 2, 2, 2, 2, 2, 2, 2, 2, 2, 2, 2, 2, 2, 2, 2, 2, 2, 2, 2, 2, 2, 2, 2, 2, 2, 2, 2, 2, 1, 1, 1, 1, 1, 1, 1, 1, 1, 1, 1, 1, 1, 1, 1, 1, 1, 1, 1, 1, 1, 1, 1, 1, 1, 1, 1, 1, 1, 1, 1, 1, 1, 1, 1, 1, 1, 1, 1, 1>>,
    <<1, 1, 1, 1, 1, 1, 1, 1, 1, 2, 2, 2, 2, 2, 2, 2, 2, 2, 2, 2, 2, 2, 2, 2, 2, 2, 2, 2, 2, 2, 2, 2, 2, 2, 2, 2, 2, 2, 2, 2, 2, 2, 2, 2, 2, 2, 2, 2, 2, 2, 2, 2, 2, 2, 2, 2, 1, 1, 1, 1, 1, 1, 1, 1, 1, 1, 1, 1, 1, 1, 1, 1, 1, 1, 1, 1, 1, 1, 1, 1, 1, 1, 1, 1, 1, 1, 1, 1, 1, 1, 1, 1, 1, 1, 1, 1, 1>>,
    <<1, 1, 1, 1, 1, 1, 1, 1, 1, 1, 2, 2, 2, 2, 2, 2, 2, 2, 2, 2, 2, 2, 2, 2, 2, 2, 2, 2, 2, 2, 2, 2, 2, 2, 2, 2, 2, 2, 2, 2, 2, 2, 2, 2, 2, 2, 2, 2, 2, 2, 2, 2, 2, 2, 2, 1, 1, 1, 1, 1, 1, 1, 1, 1, 1, 1, 1, 1, 1, 1, 1, 1, 1, 1, 1, 1, 1, 1, 1, 1, 1, 1, 1, 1, 1, 1, 1, 1, 1, 1, 1, 1, 1, 1, 1, 1, 1>>,
    <<1, 1, 1, 1, 1, 1, 1, 1, 1, 1, 1, 2, 2, 2, 2, 2, 2, 2, 2, 2, 2, 2, 2, 2, 2, 2, 2, 2, 2, 2, 2, 2, 2, 2, 2, 2, 2, 2, 2, 2, 2, 2, 2, 2, 2, 2, 2, 2, 2, 2, 2, 2, 2, 2, 1, 1, 1, 1, 1, 1, 1, 1, 1, 1, 1, 1, 1, 1, 1, 1, 1, 1, 1, 1, 1, 1, 1, 1, 1, 1, 1, 1, 1, 1, 1, 1, 1, 1, 1, 1, 1, 1, 1, 1, 1, 1, 1>>,
    <<1, 1, 1, 1, 1, 1, 1, 1, 1, 1, 1, 1, 1, 2, 2, 2, 2, 2, 2, 2, 2, 2, 2, 2, 2, 2, 2, 2, 2, 2, 2, 2, 2, 2, 2, 2, 2, 2, 2, 2, 2, 2, 2, 2, 2, 2, 2, 2, 2, 2, 2, 2, 1, 1, 1, 1, 1, 1, 1, 1, 1, 1, 1, 1, 1, 1, 1, 1, 1, 1, 1, 1, 1, 1, 1, 1, 1, 1, 1, 1, 1, 1, 1, 1, 1, 1, 1, 1, 1, 1, 1, 1, 1, 1, 1, 1, 1>>,
    <<1, 1, 1, 1, 1, 1, 1, 1, 1, 1, 1, 1, 1, 1, 2, 2, 2, 2, 2, 2, 2, 2, 2, 2, 2, 2, 2, 2, 2, 2, 2, 2, 2, 2, 2, 2, 2, 2, 2, 2, 2, 2, 2, 2, 2, 2, 2, 2, 2, 2, 2, 1, 1, 1, 1, 1, 1, 1, 1, 1, 1, 1, 1, 1, 1, 1, 1, 1, 1, 1, 1, 1, 1, 1, 1, 1, 1, 1, 1, 1, 1, 1, 1, 1, 1, 1, 1, 1, 1, 1, 1, 1, 1, 1, 1, 1, 1>>,
    <<1, 1, 1, 1, 1, 1, 1, 1, 1, 1, 1, 1, 1, 1, 1, 2, 2, 2, 2, 2, 2, 2, 2, 2, 2, 2, 2, 2, 2, 2, 2, 2, 2, 2, 2, 2, 2, 2, 2, 2, 2, 2, 2, 2, 2, 2, 2, 2, 2, 2, 1, 1, 1, 1, 1, 1, 1, 1, 1, 1, 1, 1, 1, 1, 1, 1, 1, 1, 1, 1, 1, 1, 1, 1, 1, 1, 1, 1, 1, 1, 1, 1, 1, 1, 1, 1, 1, 1, 1, 1, 1, 1, 1, 1, 1, 1, 1>>,
    <<1, 1, 1, 1, 1, 1, 1, 1, 1, 1, 1, 1, 1, 1, 1, 1, 1, 2, 2, 2, 2, 2, 2, 2, 2, 2, 2, 2, 2, 2, 2, 2, 2, 2, 2, 2, 2, 2, 2, 2, 2, 2, 2, 2, 2, 2, 2, 2, 1, 1, 1, 1, 1, 1, 1, 1, 1, 1, 1, 1, 1, 1, 1, 1, 1, 1, 1, 1, 1, 1, 1, 1, 1, 1, 1, 1, 1, 1, 1, 1, 1, 1, 1, 1, 1, 1, 1, 1, 1, 1, 1, 1, 1, 1, 1, 1, 1>>,
    <<1, 1, 1, 1, 1, 1, 1, 1, 1, 1, 1, 1, 1, 1, 1, 1, 1, 1, 1, 2, 2, 2, 2, 2, 2, 2, 2, 2, 2, 2, 2, 2, 2, 2, 2, 2, 2, 2, 2, 2, 2, 2, 2, 2, 2, 2, 1, 1, 1, 1, 1, 1, 1, 1, 1, 1, 1, 1, 1, 1, 1, 1, 1, 1, 1, 1, 1, 1, 1, 1, 1, 1, 1, 1, 1, 1, 1, 1, 1, 1, 1, 1, 1, 1, 1, 1, 1, 1, 1, 1, 1, 1, 1, 1, 1, 1, 1>>,
    <<1, 1, 1, 1, 1, 1, 1, 1, 1, 1, 1, 1, 1, 1, 1, 1, 1, 1, 1, 1, 1, 2, 2, 2, 2, 2, 2, 2, 2, 2, 2, 2, 2, 2, 2, 2, 2, 2, 2, 2, 2, 2, 2, 2, 1, 1, 1, 1, 1, 1, 1, 1, 1, 1, 1, 1, 1, 1, 1, 1, 1, 1, 1, 1, 1, 1, 1, 1, 1, 1, 1, 1, 1, 1, 1, 1, 1, 1, 1, 1, 1, 1, 1, 1, 1, 1, 1, 1, 1, 1, 1, 1, 1, 1, 1, 1, 1>>,
    <<1, 1, 1, 1, 1, 1, 1, 1, 1, 1, 1, 1, 1, 1, 1, 1, 1, 1, 1, 1, 1, 1, 1, 1, 1, 2, 2, 2, 2, 2, 2, 2, 2, 2, 2, 2, 2, 2, 2, 2, 1, 1, 1, 1, 1, 1, 1, 1, 1, 1, 1, 1, 1, 1, 1, 1, 1, 1, 1, 1, 1, 1, 1, 1, 1, 1, 1, 1, 1, 1, 1, 1, 1, 1, 1, 1, 1, 1, 1, 1, 1, 1, 1, 1, 1, 1, 1, 1, 1, 1, 1, 1, 1, 1, 1, 1, 1>>,
    <<1, 1, 1, 1, 1, 1, 1, 1, 1, 1, 1, 1, 1, 1, 1, 1, 1, 1, 1, 1, 1, 1, 1, 1, 1, 1, 1, 1, 1, 1, 1, 1, 2, 1, 1, 1, 1, 1, 1, 1, 1, 1, 1, 1, 1, 1, 1, 1, 1, 1, 1, 1, 1, 1, 1, 1, 1, 1, 1, 1, 1, 1, 1, 1, 1, 1, 1, 1, 1, 1, 1, 1, 1, 1, 1, 1, 1, 1, 1, 1, 1, 1, 1, 1, 1, 1, 1, 1, 1, 1, 1, 1, 1, 1, 1, 1, 1>>,
    <<1, 1, 1, 1, 1, 1, 1, 1, 1, 1, 1, 1, 1, 1, 1, 1, 1, 1, 1, 1, 1, 1, 1, 1, 1, 1, 1, 1, 1, 1, 1, 1, 1, 1, 1, 1, 1, 1, 1, 1, 1, 1, 1, 1, 1, 1, 1, 1, 1, 1, 1, 1, 1, 1, 1, 1, 1, 1, 1, 1, 1, 1, 1, 1, 1, 1, 1, 1, 1, 1, 1, 1, 1, 1, 1, 1, 1, 1, 1, 1, 1, 1, 1, 1, 1, 1, 1, 1, 1, 1, 1, 1, 1, 1, 1, 1, 1>>,
    <<1, 1, 1, 1, 1, 1, 1, 1, 1, 1, 1, 1, 1, 1, 1, 1, 1, 1, 1, 1, 1, 1, 1, 1, 1, 1, 1, 1, 1, 1, 1, 1, 1, 1, 1, 1, 1, 1, 1, 1, 1, 1, 1, 1, 1, 1, 1, 1, 1, 1, 1, 1, 1, 1, 1, 1, 1, 1, 1, 1, 1, 1, 1, 1, 1, 1, 1, 1, 1, 1, 1, 1, 1, 1, 1, 1, 1, 1, 1, 1, 1, 1, 1, 1, 1, 1, 1, 1, 1, 1, 1, 1, 1, 1, 1, 1, 1>>,
    <<1, 1, 1, 1, 1, 1, 1, 1, 1, 1, 1, 1, 1, 1, 1, 1, 1, 1, 1, 1, 1, 1, 1, 1, 1, 1, 1, 1, 1, 1, 1, 1, 1, 1, 1, 1, 1, 1, 1, 1, 1, 1, 1, 1, 1, 1, 1, 1, 1, 1, 1, 1, 1, 1, 1, 1, 1, 1, 1, 1, 1, 1, 1, 1, 1, 1, 1, 1, 1, 1, 1, 1, 1, 1, 1, 1, 1, 1, 1, 1, 1, 1, 1, 1, 1, 1, 1, 1, 1, 1, 1, 1, 1, 1, 1, 1, 1>>,
    <<1, 1, 1, 1, 1, 1, 1, 1, 1, 1, 1, 1, 1, 1, 1, 1, 1, 1, 1, 1, 1, 1, 1, 1, 1, 1, 1, 1, 1, 1, 1, 1, 1, 1, 1, 1, 1, 1, 1, 1, 1, 1, 1, 1, 1, 1, 1, 1, 1, 1, 1, 1, 1, 1, 1, 1, 1, 1, 1, 1, 1, 1, 1, 1, 1, 1, 1, 1, 1, 1, 1, 1, 1, 1, 1, 1, 1, 1, 1, 1, 1, 1, 1, 1, 1, 1, 1, 1, 1, 1, 1, 1, 1, 1, 1, 1, 1>>,
    <<1, 1, 1, 1, 1, 1, 1, 1, 1, 1, 1, 1, 1, 1, 1, 1, 1, 1, 1, 1, 1, 1, 1, 1, 1, 1, 1, 1, 1, 1, 1, 1, 1, 1, 1, 1, 1, 1, 1, 1, 1, 1, 1, 1, 1, 1, 1, 1, 1, 1, 1, 1, 1, 1, 1, 1, 1, 1, 1, 1, 1, 1, 1, 1, 1, 1, 1, 1, 1, 1, 1, 1, 1, 1, 1, 1, 1, 1, 1, 1, 1, 1, 1, 1, 1, 1, 1, 1, 1, 1, 1, 1, 1, 1, 1, 1, 1>>,
    <<1, 1, 1, 1, 1, 1, 1, 1, 1, 1, 1, 1, 1, 1, 1, 1, 1, 1, 1, 1, 1, 1, 1, 1, 1, 1, 1, 1, 1, 1, 1, 1, 1, 1, 1, 1, 1, 1, 1, 1, 1, 1, 1, 1, 1, 1, 1, 1, 1, 1, 1, 1, 1, 1, 1, 1, 1, 1, 1, 1, 1, 1, 1, 1, 1, 1, 1, 1, 1, 1, 1, 1, 1, 1, 1, 1, 1, 1, 1, 1, 1, 1, 1, 1, 1, 1, 1, 1, 1, 1, 1, 1, 1, 1, 1, 1, 1>>,
    <<1, 1, 1, 1, 1, 1, 1, 1, 1, 1, 1, 1, 1, 1, 1, 1, 1, 1, 1, 1, 1, 1, 1, 1, 1, 1, 1, 1, 1, 1, 1, 1, 1, 1, 1, 1, 1, 1, 1, 1, 1, 1, 1, 1, 1, 1, 1, 1, 1, 1, 1, 1, 1, 1, 1, 1, 1, 1, 1, 1, 1, 1, 1, 1, 1, 1, 1, 1, 1, 1, 1, 1, 1, 1, 1, 1, 1, 1, 1, 1, 1, 1, 1, 1, 1, 1, 1, 1, 1, 1, 1, 1, 1, 1, 1, 1, 1>>,
    <<1, 1, 1, 1, 1, 1, 1, 1, 1, 1, 1, 1, 1, 1, 1, 1, 1, 1, 1, 1, 1, 1, 1, 1, 1, 1, 1, 1, 1, 1, 1, 1, 1, 1, 1, 1, 1, 1, 1, 1, 1, 1, 1, 1, 1, 1, 1, 1, 1, 1, 1, 1, 1, 1, 1, 1, 1, 1, 1, 1, 1, 1, 1, 1, 1, 1, 1, 1, 1, 1, 1, 1, 1, 1, 1, 1, 1, 1, 1, 1, 1, 1, 1, 1, 1, 1, 1, 1, 1, 1, 1, 1, 1, 1, 1, 1, 1>>,
    <<1, 1, 1, 1, 1, 1, 1, 1, 1, 1, 1, 1, 1, 1, 1, 1, 1, 1, 1, 1, 1, 1, 1, 1, 1, 1, 1, 1, 1, 1, 1, 1, 1, 1, 1, 1, 1, 1, 1, 1, 1, 1, 1, 1, 1, 1, 1, 1, 1, 1, 1, 1, 1, 1, 1, 1, 1, 1, 1, 1, 1, 1, 1, 1, 1, 1, 1, 1, 1, 1, 1, 1, 1, 1, 1, 1, 1, 1, 1, 1, 1, 1, 1, 1, 1, 1, 1, 1, 1, 1, 1, 1, 1, 1, 1, 1, 1>>,
    <<1, 1, 1, 1, 1, 1, 1, 1, 1, 1, 1, 1, 1, 1, 1, 1, 1, 1, 1, 1, 1, 1, 1, 1, 1, 1, 1, 1, 1, 1, 1, 1, 1, 1, 1, 1, 1, 1, 1, 1, 1, 1, 1, 1, 1, 1, 1, 1, 1, 1, 1, 1, 1, 1, 1, 1, 1, 1, 1, 1, 1, 1, 1, 1, 1, 1, 1, 1, 1, 1, 1, 1, 1, 1, 1, 1, 1, 1, 1, 1, 1, 1, 1, 1, 1, 1, 1, 1, 1, 1, 1, 1, 1, 1, 1, 1, 1>>,
    <<1, 1, 1, 1, 1, 1, 1, 1, 1, 1, 1, 1, 1, 1, 1, 1, 1, 1, 1, 1, 1, 1, 1, 1, 1, 1, 1, 1, 1, 1, 1, 1, 1, 1, 1, 1, 1, 1, 1, 1, 1, 1, 1, 1, 1, 1, 1, 1, 1, 1, 1, 1, 1, 1, 1, 1, 1, 1, 1, 1, 1, 1, 1, 1, 1, 1, 1, 1, 1, 1, 1, 1, 1, 1, 1, 1, 1, 1, 1, 1, 1, 1, 1, 1, 1, 1, 1, 1, 1, 1, 1, 1, 1, 1, 1, 1, 1>>,
    <<1, 1, 1, 1, 1, 1, 1, 1, 1, 1, 1, 1, 1, 1, 1, 1, 1, 1, 1, 1, 1, 1, 1, 1, 1, 1, 1, 1, 1, 1, 1, 1, 1, 1, 1, 1, 1, 1, 1, 1, 1, 1, 1, 1, 1, 1, 1, 1, 1, 1, 1, 1, 1, 1, 1, 1, 1, 1, 1, 1, 1, 1, 1, 1, 1, 1, 1, 1, 1, 1, 1, 1, 1, 1, 1, 1, 1, 1, 1, 1, 1, 1, 1, 1, 1, 1, 1, 1, 1, 1, 1, 1, 1, 1, 1, 1, 1>>,
    <<1, 1, 1, 1, 1, 1, 1, 1, 1, 1, 1, 1, 1, 1, 1, 1, 1, 1, 1, 1, 1, 1, 1, 1, 1, 1, 1, 1, 1, 1, 1, 1, 1, 1, 1, 1, 1, 1, 1, 1, 1, 1, 1, 1, 1, 1, 1, 1, 1, 1, 1, 1, 1, 1, 1, 1, 1, 1, 1, 1, 1, 1, 1, 1, 1, 1, 1, 1, 1, 1, 1, 1, 1, 1, 1, 1, 1, 1, 1, 1, 1, 1, 1, 1, 1, 1, 1, 1, 1, 1, 1, 1, 1, 1, 1, 1, 1>>,
    <<1, 1, 1, 1, 1, 1, 1, 1, 1, 1, 1, 1, 1, 1, 1, 1, 1, 1, 1, 1, 1, 1, 1, 1, 1, 1, 1, 1, 1, 1, 1, 1, 1, 1, 1, 1, 1, 1, 1, 1, 1, 1, 1, 1, 1, 1, 1, 1, 1, 1, 1, 1, 1, 1, 1, 1, 1, 1, 1, 1, 1, 1, 1, 1, 1, 1, 1, 1, 1, 1, 1, 1, 1, 1, 1, 1, 1, 1, 1, 1, 1, 1, 1, 1, 1, 1, 1, 1, 1, 1, 1, 1, 1, 1, 1, 1, 1>>,
    <<1, 1, 1, 1, 1, 1, 1, 1, 1, 1, 1, 1, 1, 1, 1, 1, 1, 1, 1, 1, 1, 1, 1, 1, 1, 1, 1, 1, 1, 1, 1, 1, 1, 1, 1, 1, 1, 1, 1, 1, 1, 1, 1, 1, 1, 1, 1, 1, 1, 1, 1, 1, 1, 1, 1, 1, 1, 1, 1, 1, 1, 1, 1, 1, 1, 1, 1, 1, 1, 1, 1, 1, 1, 1, 1, 1, 1, 1, 1, 1, 1, 1, 1, 1, 1, 1, 1, 1, 1, 1, 1, 1, 1, 1, 1, 1, 1>>,
    <<1, 1, 1, 1, 1, 1, 1, 1, 1, 1, 1, 1, 1, 1, 1, 1, 1, 1, 1, 1, 1, 1, 1, 1, 1, 1, 1, 1, 1, 1, 1, 1, 1, 1, 1, 1, 1, 1, 1, 1, 1, 1, 1, 1, 1, 1, 1, 1, 1, 1, 1, 1, 1, 1, 1, 1, 1, 1, 1, 1, 1, 1, 1, 1, 1, 1, 1, 1, 1, 1, 1, 1, 1, 1, 1, 1, 1, 1, 1, 1, 1, 1, 1, 1, 1, 1, 1, 1, 1, 1, 1, 1, 1, 1, 1, 1, 1>>,
    <<1, 1, 1, 1, 1, 1, 1, 1, 1, 1, 1, 1, 1, 1, 1, 1, 1, 1, 1, 1, 1, 1, 1, 1, 1, 1, 1, 1, 1, 1, 1, 1, 1, 1, 1, 1, 1, 1, 1, 1, 1, 1, 1, 1, 1, 1, 1, 1, 1, 1, 1, 1, 1, 1, 1, 1, 1, 1, 1, 1, 1, 1, 1, 1, 1, 1, 1, 1, 1, 1, 1, 1, 1, 1, 1, 1, 1, 1, 1, 1, 1, 1, 1, 1, 1, 1, 1, 1, 1, 1, 1, 1, 1, 1, 1, 1, 1>>,
    <<1, 1, 1, 1, 1, 1, 1, 1, 1, 1, 1, 1, 1, 1, 1, 1, 1, 1, 1, 1, 1, 1, 1, 1, 1, 1, 1, 1, 1, 1, 1, 1, 1, 1, 1, 1, 1, 1, 1, 1, 1, 1, 1, 1, 1, 1, 1, 1, 1, 1, 1, 1, 1, 1, 1, 1, 1, 1, 1, 1, 1, 1, 1, 1, 1, 1, 1, 1, 1, 1, 1, 1, 1, 1, 1, 1, 1, 1, 1, 1, 1, 1, 1, 1, 1, 1, 1, 1, 1, 1, 1, 1, 1, 1, 1, 1, 1>>,
    <<1, 1, 1, 1, 1, 1, 1, 1, 1, 1, 1, 1, 1, 1, 1, 1, 1, 1, 1, 1, 1, 1, 1, 1, 1, 1, 1, 1, 1, 1, 1, 1, 1, 1, 1, 1, 1, 1, 1, 1, 1, 1, 1, 1, 1, 1, 1, 1, 1, 1, 1, 1, 1, 1, 1, 1, 1, 1, 1, 1, 1, 1, 1, 1, 1, 1, 1, 1, 1, 1, 1, 1, 1, 1, 1, 1, 1, 1, 1, 1, 1, 1, 1, 1, 1, 1, 1, 1, 1, 1, 1, 1, 1, 1, 1, 1, 1>>,
    <<1, 1, 1, 1, 1, 1, 1, 1, 1, 1, 1, 1, 1, 1, 1, 1, 1, 1, 1, 1, 1, 1, 1, 1, 1, 1, 1, 1, 1, 1, 1, 1, 1, 1, 1, 1, 1, 1, 1, 1, 1, 1, 1, 1, 1, 1, 1, 1, 1, 1, 1, 1, 1, 1, 1, 1, 1, 1, 1, 1, 1, 1, 1, 1, 1, 1, 1, 1, 1, 1, 1, 1, 1, 1, 1, 1, 1, 1, 1, 1, 1, 1, 1, 1, 1, 1, 1, 1, 1, 1, 1, 1, 1, 1, 1, 1, 1>>,
    <<1, 1, 1, 1, 1, 1, 1, 1, 1, 1, 1, 1, 1, 1, 1, 1, 1, 1, 1, 1, 1, 1, 1, 1, 1, 1, 1, 1, 1, 1, 1, 1, 1, 1, 1, 1, 1, 1, 1, 1, 1, 1, 1, 1, 1, 1, 1, 1, 1, 1, 1, 1, 1, 1, 1, 1, 1, 1, 1, 1, 1, 1, 1, 1, 1, 1, 1, 1, 1, 1, 1, 1, 1, 1, 1, 1, 1, 1, 1, 1, 1, 1, 1, 1, 1, 1, 1, 1, 1, 1, 1, 1, 1, 1, 1, 1, 1>>,
    <<1, 1, 1, 1, 1, 1, 1, 1, 1, 1, 1, 1, 1, 1, 1, 1, 1, 1, 1, 1, 1, 1, 1, 1, 1, 1, 1, 1, 1, 1, 1, 1, 1, 1, 1, 1, 1, 1, 1, 1, 1, 1, 1, 1, 1, 1, 1, 1, 1, 1, 1, 1, 1, 1, 1, 1, 1, 1, 1, 1, 1, 1, 1, 1, 1, 1, 1, 1, 1, 1, 1, 1, 1, 1, 1, 1, 1, 1, 1, 1, 1, 1, 1, 1, 1, 1, 1, 1, 1, 1, 1, 1, 1, 1, 1, 1, 1>>,
    <<1, 1, 1, 1, 1, 1, 1, 1, 1, 1, 1, 1, 1, 1, 1, 1, 1, 1, 1, 1, 1, 1, 1, 1, 1, 1, 1, 1, 1, 1, 1, 1, 1, 1, 1, 1, 1, 1, 1, 1, 1, 1, 1, 1, 1, 1, 1, 1, 1, 1, 1, 1, 1, 1, 1, 1, 1, 1, 1, 1, 1, 1, 1, 1, 1, 1, 1, 1, 1, 1, 1, 1, 1, 1, 1, 1, 1, 1, 1, 1, 1, 1, 1, 1, 1, 1, 1, 1, 1, 1, 1, 1, 1, 1, 1, 1, 1>>,
    <<1, 1, 1, 1, 1, 1, 1, 1, 1, 1, 1, 1, 1, 1, 1, 1, 1, 1, 1, 1, 1, 1, 1, 1, 1, 1, 1, 1, 1, 1, 1, 1, 1, 1, 1, 1, 1, 1, 1, 1, 1, 1, 1, 1, 1, 1, 1, 1, 1, 1, 1, 1, 1, 1, 1, 1, 1, 1, 1, 1, 1, 1, 1, 1, 1, 1, 1, 1, 1, 1, 1, 1, 1, 1, 1, 1, 1, 1, 1, 1, 1, 1, 1, 1, 1, 1, 1, 1, 1, 1, 1, 1, 1, 1, 1, 1, 1>>,
    <<1, 1, 1, 1, 1, 1, 1, 1, 1, 1, 1, 1, 1, 1, 1, 1, 1, 1, 1, 1, 1, 1, 1, 1, 1, 1, 1, 1, 1, 1, 1, 1, 1, 1, 1, 1, 1, 1, 1, 1, 1, 1, 1, 1, 1, 1, 1, 1, 1, 1, 1, 1, 1, 1, 1, 1, 1, 1, 1, 1, 1, 1, 1, 1, 1, 1, 1, 1, 1, 1, 1, 1, 1, 1, 1, 1, 1, 1, 1, 1, 1, 1, 1, 1, 1, 1, 1, 1, 1, 1, 1, 1, 1, 1, 1, 1, 1>>,
    <<1, 1, 1, 1, 1, 1, 1, 1, 1, 1, 1, 1, 1, 1, 1, 1, 1, 1, 1, 1, 1, 1, 1, 1, 1, 1, 1, 1, 1, 1, 1, 1, 1, 1, 1, 1, 1, 1, 1, 1, 1, 1, 1, 1, 1, 1, 1, 1, 1, 1, 1, 1, 1, 1, 1, 1, 1, 1, 1, 1, 1, 1, 1, 1, 1, 1, 1, 1, 1, 1, 1, 1, 1, 1, 1, 1, 1, 1, 1, 1, 1, 1, 1, 1, 1, 1, 1, 1, 1, 1, 1, 1, 1, 1, 1, 1, 1>>,
    <<1, 1, 1, 1, 1, 1, 1, 1, 1, 1, 1, 1, 1, 1, 1, 1, 1, 1, 1, 1, 1, 1, 1, 1, 1, 1, 1, 1, 1, 1, 1, 1, 1, 1, 1, 1, 1, 1, 1, 1, 1, 1, 1, 1, 1, 1, 1, 1, 1, 1, 1, 1, 1, 1, 1, 1, 1, 1, 1, 1, 1, 1, 1, 1, 1, 1, 1, 1, 1, 1, 1, 1, 1, 1, 1, 1, 1, 1, 1, 1, 1, 1, 1, 1, 1, 1, 1, 1, 1, 1, 1, 1, 1, 1, 1, 1, 1>>,
    <<1, 1, 1, 1, 1, 1, 1, 1, 1, 1, 1, 1, 1, 1, 1, 1, 1, 1, 1, 1, 1, 1, 1, 1, 1, 1, 1, 1, 1, 1, 1, 1, 1, 1, 1, 1, 1, 1, 1, 1, 1, 1, 1, 1, 1, 1, 1, 1, 1, 1, 1, 1, 1, 1, 1, 1, 1, 1, 1, 1, 1, 1, 1, 1, 1, 1, 1, 1, 1, 1, 1, 1, 1, 1, 1, 1, 1, 1, 1, 1, 1, 1, 1, 1, 1, 1, 1, 1, 1, 1, 1, 1, 1, 1, 1, 1, 1>>,
    <<1, 1, 1, 1, 1, 1, 1, 1, 1, 1, 1, 1, 1, 1, 1, 1, 1, 1, 1, 1, 1, 1, 1, 1, 1, 1, 1, 1, 1, 1, 1, 1, 1, 1, 1, 1, 1, 1, 1, 1, 1, 1, 1, 1, 1, 1, 1, 1, 1, 1, 1, 1, 1, 1, 1, 1, 1, 1, 1, 1, 1, 1, 1, 1, 1, 1, 1, 1, 1, 1, 1, 1, 1, 1, 1, 1, 1, 1, 1, 1, 1, 1, 1, 1, 1, 1, 1, 1, 1, 1, 1, 1, 1, 1, 1, 1, 1>>,
    <<1, 1, 1, 1, 1, 1, 1, 1, 1, 1, 1, 1, 1, 1, 1, 1, 1, 1, 1, 1, 1, 1, 1, 1, 1, 1, 1, 1, 1, 1, 1, 1, 1, 1, 1, 1, 1, 1, 1, 1, 1, 1, 1, 1, 1, 1, 1, 1, 1, 1, 1, 1, 1, 1, 1, 1, 1, 1, 1, 1, 1, 1, 1, 1, 1, 1, 1, 1, 1, 1, 1, 1, 1, 1, 1, 1, 1, 1, 1, 1, 1, 1, 1, 1, 1, 1, 1, 1, 1, 1, 1, 1, 1, 1, 1, 1, 1>>,
    <<1, 1, 1, 1, 1, 1, 1, 1, 1, 1, 1, 1, 1, 1, 1, 1, 1, 1, 1, 1, 1, 1, 1, 1, 1, 1, 1, 1, 1, 1, 1, 1, 1, 1, 1, 1, 1, 1, 1, 1, 1, 1, 1, 1, 1, 1, 1, 1, 1, 1, 1, 1, 1, 1, 1, 1, 1, 1, 1, 1, 1, 1, 1, 1, 1, 1, 1, 1, 1, 1, 1, 1, 1, 1, 1, 1, 1, 1, 1, 1, 1, 1, 1, 1, 1, 1, 1, 1, 1, 1, 1, 1, 1, 1, 1, 1, 1>>,
    <<1, 1, 1, 1, 1, 1, 1, 1, 1, 1, 1, 1, 1, 1, 1, 1, 1, 1, 1, 1, 1, 1, 1, 1, 1, 1, 1, 1, 1, 1, 1, 1, 1, 1, 1, 1, 1, 1, 1, 1, 1, 1, 1, 1, 1, 1, 1, 1, 1, 1, 1, 1, 1, 1, 1, 1, 1, 1, 1, 1, 1, 1, 1, 1, 1, 1, 1, 1, 1, 1, 1, 1, 1, 1, 1, 1, 1, 1, 1, 1, 1, 1, 1, 1, 1, 1, 1, 1, 1, 1, 1, 1, 1, 1, 1, 1, 1>>,
    <<1, 1, 1, 1, 1, 1, 1, 1, 1, 1, 1, 1, 1, 1, 1, 1, 1, 1, 1, 1, 1, 1, 1, 1, 1, 1, 1, 1, 1, 1, 1, 1, 1, 1, 1, 1, 1, 1, 1, 1, 1, 1, 1, 1, 1, 1, 1, 1, 1, 1, 1, 1, 1, 1, 1, 1, 1, 1, 1, 1, 1, 1, 1, 1, 1, 1, 1, 1, 1, 1, 1, 1, 1, 1, 1, 1, 1, 1, 1, 1, 1, 1, 1, 1, 1, 1, 1, 1, 1, 1, 1, 1, 1, 1, 1, 1, 1>>,
    <<1, 1, 1, 1, 1, 1, 1, 1, 1, 1, 1, 1, 1, 1, 1, 1, 1, 1, 1, 1, 1, 1, 1, 1, 1, 1, 1, 1, 1, 1, 1, 1, 1, 1, 1, 1, 1, 1, 1, 1, 1, 1, 1, 1, 1, 1, 1, 1, 1, 1, 1, 1, 1, 1, 1, 1, 1, 1, 1, 1, 1, 1, 1, 1, 1, 1, 1, 1, 1, 1, 1, 1, 1, 1, 1, 1, 1, 1, 1, 1, 1, 1, 1, 1, 1, 1, 1, 1, 1, 1, 1, 1, 1, 1, 1, 1, 1>>,
    <<1, 1, 1, 1, 1, 1, 1, 1, 1, 1, 1, 1, 1, 1, 1, 1, 1, 1, 1, 1, 1, 1, 1, 1, 1, 1, 1, 1, 1, 1, 1, 1, 1, 1, 1, 1, 1, 1, 1, 1, 1, 1, 1, 1, 1, 1, 1, 1, 1, 1, 1, 1, 1, 1, 1, 1, 1, 1, 1, 1, 1, 1, 1, 1, 1, 1, 1, 1, 1, 1, 1, 1, 1, 1, 1, 1, 1, 1, 1, 1, 1, 1, 1, 1, 1, 1, 1, 1, 1, 1, 1, 1, 1, 1, 1, 1, 1>>,
    <<1, 1, 1, 1, 1, 1, 1, 1, 1, 1, 1, 1, 1, 1, 1, 1, 1, 1, 1, 1, 1, 1, 1, 1, 1, 1, 1, 1, 1, 1, 1, 1, 1, 1, 1, 1, 1, 1, 1, 1, 1, 1, 1, 1, 1, 1, 1, 1, 1, 1, 1, 1, 1, 1, 1, 1, 1, 1, 1, 1, 1, 1, 1, 1, 1, 1, 1, 1, 1, 1, 1, 1, 1, 1, 1, 1, 1, 1, 1, 1, 1, 1, 1, 1, 1, 1, 1, 1, 1, 1, 1, 1, 1, 1, 1, 1, 1>>,
    <<1, 1, 1, 1, 1, 1, 1, 1, 1, 1, 1, 1, 1, 1, 1, 1, 1, 1, 1, 1, 1, 1, 1, 1, 1, 1, 1, 1, 1, 1, 1, 1, 1, 1, 1, 1, 1, 1, 1, 1, 1, 1, 1, 1, 1, 1, 1, 1, 1, 1, 1, 1, 1, 1, 1, 1, 1, 1, 1, 1, 1, 1, 1, 1, 1, 1, 1, 1, 1, 1, 1, 1, 1, 1, 1, 1, 1, 1, 1, 1, 1, 1, 1, 1, 1, 1, 1, 1, 1, 1, 1, 1, 1, 1, 1, 1, 1>>,
    <<1, 1, 1, 1, 1, 1, 1, 1, 1, 1, 1, 1, 1, 1, 1, 1, 1, 1, 1, 1, 1, 1, 1, 1, 1, 1, 1, 1, 1, 1, 1, 1, 1, 1, 1, 1, 1, 1, 1, 1, 1, 1, 1, 1, 1, 1, 1, 1, 1, 1, 1, 1, 1, 1, 1, 1, 1, 1, 1, 1, 1, 1, 1, 1, 1, 1, 1, 1, 1, 1, 1, 1, 1, 1, 1, 1, 1, 1, 1, 1, 1, 1, 1, 1, 1, 1, 1, 1, 1, 1, 1, 1, 1, 1, 1, 1, 1>>,
    <<1, 1, 1, 1, 1, 1, 1, 1, 1, 1, 1, 1, 1, 1, 1, 1, 1, 1, 1, 1, 1, 1, 1, 1, 1, 1, 1, 1, 1, 1, 1, 1, 1, 1, 1, 1, 1, 1, 1, 1, 1, 1, 1, 1, 1, 1, 1, 1, 1, 1, 1, 1, 1, 1, 1, 1, 1, 1, 1, 1, 1, 1, 1, 1, 1, 1, 1, 1, 1, 1, 1, 1, 1, 1, 1, 1, 1, 1, 1, 1, 1, 1, 1, 1, 1, 1, 1, 1, 1, 1, 1, 1, 1, 1, 1, 1, 1>>,
    <<1, 1, 1, 1, 1, 1, 1, 1, 1, 1, 1, 1, 1, 1, 1, 1, 1, 1, 1, 1, 1, 1, 1, 1, 1, 1, 1, 1, 1, 1, 1, 1, 1, 1, 1, 1, 1, 1, 1, 1, 1, 1, 1, 1, 1, 1, 1, 1, 1, 1, 1, 1, 1, 1, 1, 1, 1, 1, 1, 1, 1, 1, 1, 1, 1, 1, 1, 1, 1, 1, 1, 1, 1, 1, 1, 1, 1, 1, 1, 1, 1, 1, 1, 1, 1, 1, 1, 1, 1, 1, 1, 1, 1, 1, 1, 1, 1>>,
    <<1, 1, 1, 1, 1, 1, 1, 1, 1, 1, 1, 1, 1, 1, 1, 1, 1, 1, 1, 1, 1, 1, 1, 1, 1, 1, 1, 1, 1, 1, 1, 1, 1, 1, 1, 1, 1, 1, 1, 1, 1, 1, 1, 1, 1, 1, 1, 1, 1, 1, 1, 1, 1, 1, 1, 1, 1, 1, 1, 1, 1, 1, 1, 1, 1, 1, 1, 1, 1, 1, 1, 1, 1, 1, 1, 1, 1, 1, 1, 1, 1, 1, 1, 1, 1, 1, 1, 1, 1, 1, 1, 1, 1, 1, 1, 1, 1>>,
    <<1, 1, 1, 1, 1, 1, 1, 1, 1, 1, 1, 1, 1, 1, 1, 1, 1, 1, 1, 1, 1, 1, 1, 1, 1, 1, 1, 1, 1, 1, 1, 1, 1, 1, 1, 1, 1, 1, 1, 1, 1, 1, 1, 1, 1, 1, 1, 1, 1, 1, 1, 1, 1, 1, 1, 1, 1, 1, 1, 1, 1, 1, 1, 1, 1, 1, 1, 1, 1, 1, 1, 1, 1, 1, 1, 1, 1, 1, 1, 1, 1, 1, 1, 1, 1, 1, 1, 1, 1, 1, 1, 1, 1, 1, 1, 1, 1>>,
    <<1, 1, 1, 1, 1, 1, 1, 1, 1, 1, 1, 1, 1, 1, 1, 1, 1, 1, 1, 1, 1, 1, 1, 1, 1, 1, 1, 1, 1, 1, 1, 1, 1, 1, 1, 1, 1, 1, 1, 1, 1, 1, 1, 1, 1, 1, 1, 1, 1, 1, 1, 1, 1, 1, 1, 1, 1, 1, 1, 1, 1, 1, 1, 1, 1, 1, 1, 1, 1, 1, 1, 1, 1, 1, 1, 1, 1, 1, 1, 1, 1, 1, 1, 1, 1, 1, 1, 1, 1, 1, 1, 1, 1, 1, 1, 1, 1>>,
    <<1, 1, 1, 1, 1, 1, 1, 1, 1, 1, 1, 1, 1, 1, 1, 1, 1, 1, 1, 1, 1, 1, 1, 1, 1, 1, 1, 1, 1, 1, 1, 1, 1, 1, 1, 1, 1, 1, 1, 1, 1, 1, 1, 1, 1, 1, 1, 1, 1, 1, 1, 1, 1, 1, 1, 1, 1, 1, 1, 1, 1, 1, 1, 1, 1, 1, 1, 1, 1, 1, 1, 1, 1, 1, 1, 1, 1, 1, 1, 1, 1, 1, 1, 1, 1, 1, 1, 1, 1, 1, 1, 1, 1, 1, 1, 1, 1>>,
    <<1, 1, 1, 1, 1, 1, 1, 1, 1, 1, 1, 1, 1, 1, 1, 1, 1, 1, 1, 1, 1, 1, 1, 1, 1, 1, 1, 1, 1, 1, 1, 1, 1, 1, 1, 1, 1, 1, 1, 1, 1, 1, 1, 1, 1, 1, 1, 1, 1, 1, 1, 1, 1, 1, 1, 1, 1, 1, 1, 1, 1, 1, 1, 1, 1, 1, 1, 1, 1, 1, 1, 1, 1, 1, 1, 1, 1, 1, 1, 1, 1, 1, 1, 1, 1, 1, 1, 1, 1, 1, 1, 1, 1, 1, 1, 1, 1>>,
    <<1, 1, 1, 1, 1, 1, 1, 1, 1, 1, 1, 1, 1, 1, 1, 1, 1, 1, 1, 1, 1, 1, 1, 1, 1, 1, 1, 1, 1, 1, 1, 1, 1, 1, 1, 1, 1, 1, 1, 1, 1, 1, 1, 1, 1, 1, 1, 1, 1, 1, 1, 1, 1, 1, 1, 1, 1, 1, 1, 1, 1, 1, 1, 1, 1, 1, 1, 1, 1, 1, 1, 1, 1, 1, 1, 1, 1, 1, 1, 1, 1, 1, 1, 1, 1, 1, 1, 1, 1, 1, 1, 1, 1, 1, 1, 1, 1>>,
    <<1, 1, 1, 1, 1, 1, 1, 1, 1, 1, 1, 1, 1, 1, 1, 1, 1, 1, 1, 1, 1, 1, 1, 1, 1, 1, 1, 1, 1, 1, 1, 1, 1, 1, 1, 1, 1, 1, 1, 1, 1, 1, 1, 1, 1, 1, 1, 1, 1, 1, 1, 1, 1, 1, 1, 1, 1, 1, 1, 1, 1, 1, 1, 1, 1, 1, 1, 1, 1, 1, 1, 1, 1, 1, 1, 1, 1, 1, 1, 1, 1, 1, 1, 1, 1, 1, 1, 1, 1, 1, 1, 1, 1, 1, 1, 1, 1>>,
    <<1, 1, 1, 1, 1, 1, 1, 1, 1, 1, 1, 1, 1, 1, 1, 1, 1, 1, 1, 1, 1, 1, 1, 1, 1, 1, 1, 1, 1, 1, 1, 1, 1, 1, 1, 1, 1, 1, 1, 1, 1, 1, 1, 1, 1, 1, 1, 1, 1, 1, 1, 1, 1, 1, 1, 1, 1, 1, 1, 1, 1, 1, 1, 1, 1, 1, 1, 1, 1, 1, 1, 1, 1, 1, 1, 1, 1, 1, 1, 1, 1, 1, 1, 1, 1, 1, 1, 1, 1, 1, 1, 1, 1, 1, 1, 1, 1>>,
    <<1, 1, 1, 1, 1, 1, 1, 1, 1, 1, 1, 1, 1, 1, 1, 1, 1, 1, 1, 1, 1, 1, 1, 1, 1, 1, 1, 1, 1, 1, 1, 1, 1, 1, 1, 1, 1, 1, 1, 1, 1, 1, 1, 1, 1, 1, 1, 1, 1, 1, 1, 1, 1, 1, 1, 1, 1, 1, 1, 1, 1, 1, 1, 1, 1, 1, 1, 1, 1, 1, 1, 1, 1, 1, 1, 1, 1, 1, 1, 1, 1, 1, 1, 1, 1, 1, 1, 1, 1, 1, 1, 1, 1, 1, 1, 1, 1>>,
    <<1, 1, 1, 1, 1, 1, 1, 1, 1, 1, 1, 1, 1, 1, 1, 1, 1, 1, 1, 1, 1, 1, 1, 1, 1, 1, 1, 1, 1, 1, 1, 1, 1, 1, 1, 1, 1, 1, 1, 1, 1, 1, 1, 1, 1, 1, 1, 1, 1, 1, 1, 1, 1, 1, 1, 1, 1, 1, 1, 1, 1, 1, 1, 1, 1, 1, 1, 1, 1, 1, 1, 1, 1, 1, 1, 1, 1, 1, 1, 1, 1, 1, 1, 1, 1, 1, 1, 1, 1, 1, 1, 1, 1, 1, 1, 1, 1>>,
    <<1, 1, 1, 1, 1, 1, 1, 1, 1, 1, 1, 1, 1, 1, 1, 1, 1, 1, 1, 1, 1, 1, 1, 1, 1, 1, 1, 1, 1, 1, 1, 1, 1, 1, 1, 1, 1, 1, 1, 1, 1, 1, 1, 1, 1, 1, 1, 1, 1, 1, 1, 1, 1, 1, 1, 1, 1, 1, 1, 1, 1, 1, 1, 1, 1, 1, 1, 1, 1, 1, 1, 1, 1, 1, 1, 1, 1, 1, 1, 1, 1, 1, 1, 1, 1, 1, 1, 1, 1, 1, 1, 1, 1, 1, 1, 1, 1>>,
    <<1, 1, 1, 1, 1, 1, 1, 1, 1, 1, 1, 1, 1, 1, 1, 1, 1, 1, 1, 1, 1, 1, 1, 1, 1, 1, 1, 1, 1, 1, 1, 1, 1, 1, 1, 1, 1, 1, 1, 1, 1, 1, 1, 1, 1, 1, 1, 1, 1, 1, 1, 1, 1, 1, 1, 1, 1, 1, 1, 1, 1, 1, 1, 1, 1, 1, 1, 1, 1, 1, 1, 1, 1, 1, 1, 1, 1, 1, 1, 1, 1, 1, 1, 1, 1, 1, 1, 1, 1, 1, 1, 1, 1, 1, 1, 1, 1>>,
    <<1, 1, 1, 1, 1, 1, 1, 1, 1, 1, 1, 1, 1, 1, 1, 1, 1, 1, 1, 1, 1, 1, 1, 1, 1, 1, 1, 1, 1, 1, 1, 1, 1, 1, 1, 1, 1, 1, 1, 1, 1, 1, 1, 1, 1, 1, 1, 1, 1, 1, 1, 1, 1, 1, 1, 1, 1, 1, 1, 1, 1, 1, 1, 1, 1, 1, 1, 1, 1, 1, 1, 1, 1, 1, 1, 1, 1, 1, 1, 1, 1, 1, 1, 1, 1, 1, 1, 1, 1, 1, 1, 1, 1, 1, 1, 1, 1>>,
    <<1, 1, 1, 1, 1, 1, 1, 1, 1, 1, 1, 1, 1, 1, 1, 1, 1, 1, 1, 1, 1, 1, 1, 1, 1, 1, 1, 1, 1, 1, 1, 1, 1, 1, 1, 1, 1, 1, 1, 1, 1, 1, 1, 1, 1, 1, 1, 1, 1, 1, 1, 1, 1, 1, 1, 1, 1, 1, 1, 1, 1, 1, 1, 1, 1, 1, 1, 1, 1, 1, 1, 1, 1, 1, 1, 1, 1, 1, 1, 1, 1, 1, 1, 1, 1, 1, 1, 1, 1, 1, 1, 1, 1, 1, 1, 1, 1>>,
    <<1, 1, 1, 1, 1, 1, 1, 1, 1, 1, 1, 1, 1, 1, 1, 1, 1, 1, 1, 1, 1, 1, 1, 1, 1, 1, 1, 1, 1, 1, 1, 1, 1, 1, 1, 1, 1, 1, 1, 1, 1, 1, 1, 1, 1, 1, 1, 1, 1, 1, 1, 1, 1, 1, 1, 1, 1, 1, 1, 1, 1, 1, 1, 1, 1, 1, 1, 1, 1, 1, 1, 1, 1, 1, 1, 1, 1, 1, 1, 1, 1, 1, 1, 1, 1, 1, 1, 1, 1, 1, 1, 1, 1, 1, 1, 1, 1>>,
    <<1, 1, 1, 1, 1, 1, 1, 1, 1, 1, 1, 1, 1, 1, 1, 1, 1, 1, 1, 1, 1, 1, 1, 1, 1, 1, 1, 1, 1, 1, 1, 1, 1, 1, 1, 1, 1, 1, 1, 1, 1, 1, 1, 1, 1, 1, 1, 1, 1, 1, 1, 1, 1, 1, 1, 1, 1, 1, 1, 1, 1, 1, 1, 1, 1, 1, 1, 1, 1, 1, 1, 1, 1, 1, 1, 1, 1, 1, 1, 1, 1, 1, 1, 1, 1, 1, 1, 1, 1, 1, 1, 1, 1, 1, 1, 1, 1>>,
    <<1, 1, 1, 1, 1, 1, 1, 1, 1, 1, 1, 1, 1, 1, 1, 1, 1, 1, 1, 1, 1, 1, 1, 1, 1, 1, 1, 1, 1, 1, 1, 1, 1, 1, 1, 1, 1, 1, 1, 1, 1, 1, 1, 1, 1, 1, 1, 1, 1, 1, 1, 1, 1, 1, 1, 1, 1, 1, 1, 1, 1, 1, 1, 1, 1, 1, 1, 1, 1, 1, 1, 1, 1, 1, 1, 1, 1, 1, 1, 1, 1, 1, 1, 1, 1, 1, 1, 1, 1, 1, 1, 1, 1, 1, 1, 1, 1>>,
    <<1, 1, 1, 1, 1, 1, 1, 1, 1, 1, 1, 1, 1, 1, 1, 1, 1, 1, 1, 1, 1, 1, 1, 1, 1, 1, 1, 1, 1, 1, 1, 1, 1, 1, 1, 1, 1, 1, 1, 1, 1, 1, 1, 1, 1, 1, 1, 1, 1, 1, 1, 1, 1, 1, 1, 1, 1, 1, 1, 1, 1, 1, 1, 1, 1, 1, 1, 1, 1, 1, 1, 1, 1, 1, 1, 1, 1, 1, 1, 1, 1, 1, 1, 1, 1, 1, 1, 1, 1, 1, 1, 1, 1, 1, 1, 1, 1>>,
    <<1, 1, 1, 1, 1, 1, 1, 1, 1, 1, 1, 1, 1, 1, 1, 1, 1, 1, 1, 1, 1, 1, 1, 1, 1, 1, 1, 1, 1, 1, 1, 1, 1, 1, 1, 1, 1, 1, 1, 1, 1, 1, 1, 1, 1, 1, 1, 1, 1, 1, 1, 1, 1, 1, 1, 1, 1, 1, 1, 1, 1, 1, 1, 1, 1, 1, 1, 1, 1, 1, 1, 1, 1, 1, 1, 1, 1, 1, 1, 1, 1, 1, 1, 1, 1, 1, 1, 1, 1, 1, 1, 1, 1, 1, 1, 1, 1>>,
    <<1, 1, 1, 1, 1, 1, 1, 1, 1, 1, 1, 1, 1, 1, 1, 1, 1, 1, 1, 1, 1, 1, 1, 1, 1, 1, 1, 1, 1, 1, 1, 1, 1, 1, 1, 1, 1, 1, 1, 1, 1, 1, 1, 1, 1, 1, 1, 1, 1, 1, 1, 1, 1, 1, 1, 1, 1, 1, 1, 1, 1, 1, 1, 1, 1, 1, 1, 1, 1, 1, 1, 1, 1, 1, 1, 1, 1, 1, 1, 1, 1, 1, 1, 1, 1, 1, 1, 1, 1, 1, 1, 1, 1, 1, 1, 1, 1>>,
    <<1, 1, 1, 1, 1, 1, 1, 1, 1, 1, 1, 1, 1, 1, 1, 1, 1, 1, 1, 1, 1, 1, 1, 1, 1, 1, 1, 1, 1, 1, 1, 1, 1, 1, 1, 1, 1, 1, 1, 1, 1, 1, 1, 1, 1, 1, 1, 1, 1, 1, 1, 1, 1, 1, 1, 1, 1, 1, 1, 1, 1, 1, 1, 1, 1, 1, 1, 1, 1, 1, 1, 1, 1, 1, 1, 1, 1, 1, 1, 1, 1, 1, 1, 1, 1, 1, 1, 1, 1, 1, 1, 1, 1, 1, 1, 1, 1>>,
    <<1, 1, 1, 1, 1, 1, 1, 1, 1, 1, 1, 1, 1, 1, 1, 1, 1, 1, 1, 1, 1, 1, 1, 1, 1, 1, 1, 1, 1, 1, 1, 1, 1, 1, 1, 1, 1, 1, 1, 1, 1, 1, 1, 1, 1, 1, 1, 1, 1, 1, 1, 1, 1, 1, 1, 1, 1, 1, 1, 1, 1, 1, 1, 1, 1, 1, 1, 1, 1, 1, 1, 1, 1, 1, 1, 1, 1, 1, 1, 1, 1, 1, 1, 1, 1, 1, 1, 1, 1, 1, 1, 1, 1, 1, 1, 1, 1>>,
    <<1, 1, 1, 1, 1, 1, 1, 1, 1, 1, 1, 1, 1, 1, 1, 1, 1, 1, 1, 1, 1, 1, 1, 1, 1, 1, 1, 1, 1, 1, 1, 1, 1, 1, 1, 1, 1, 1, 1, 1, 1, 1, 1, 1, 1, 1, 1, 1, 1, 1, 1, 1, 1, 1, 1, 1, 1, 1, 1, 1, 1, 1, 1, 1, 1, 1, 1, 1, 1, 1, 1, 1, 1, 1, 1, 1, 1, 1, 1, 1, 1, 1, 1, 1, 1, 1, 1, 1, 1, 1, 1, 1, 1, 1, 1, 1, 1>>,
    <<1, 1, 1, 1, 1, 1, 1, 1, 1, 1, 1, 1, 1, 1, 1, 1, 1, 1, 1, 1, 1, 1, 1, 1, 1, 1, 1, 1, 1, 1, 1, 1, 1, 1, 1, 1, 1, 1, 1, 1, 1, 1, 1, 1, 1, 1, 1, 1, 1, 1, 1, 1, 1, 1, 1, 1, 1, 1, 1, 1, 1, 1, 1, 1, 1, 1, 1, 1, 1, 1, 1, 1, 1, 1, 1, 1, 1, 1, 1, 1, 1, 1, 1, 1, 1, 1, 1, 1, 1, 1, 1, 1, 1, 1, 1, 1, 1>>,
    <<1, 1, 1, 1, 1, 1, 1, 1, 1, 1, 1, 1, 1, 1, 1, 1, 1, 1, 1, 1, 1, 1, 1, 1, 1, 1, 1, 1, 1, 1, 1, 1, 1, 1, 1, 1, 1, 1, 1, 1, 1, 1, 1, 1, 1, 1, 1, 1, 1, 1, 1, 1, 1, 1, 1, 1, 1, 1, 1, 1, 1, 1, 1, 1, 1, 1, 1, 1, 1, 1, 1, 1, 1, 1, 1, 1, 1, 1, 1, 1, 1, 1, 1, 1, 1, 1, 1, 1, 1, 1, 1, 1, 1, 1, 1, 1, 1>>,
    <<1, 1, 1, 1, 1, 1, 1, 1, 1, 1, 1, 1, 1, 1, 1, 1, 1, 1, 1, 1, 1, 1, 1, 1, 1, 1, 1, 1, 1, 1, 1, 1, 1, 1, 1, 1, 1, 1, 1, 1, 1, 1, 1, 1, 1, 1, 1, 1, 1, 1, 1, 1, 1, 1, 1, 1, 1, 1, 1, 1, 1, 1, 1, 1, 1, 1, 1, 1, 1, 1, 1, 1, 1, 1, 1, 1, 1, 1, 1, 1, 1, 1, 1, 1, 1, 1, 1, 1, 1, 1, 1, 1, 1, 1, 1, 1, 1>>,
    <<1, 1, 1, 1, 1, 1, 1, 1, 1, 1, 1, 1, 1, 1, 1, 1, 1, 1, 1, 1, 1, 1, 1, 1, 1, 1, 1, 1, 1, 1, 1, 1, 1, 1, 1, 1, 1, 1, 1, 1, 1, 1, 1, 1, 1, 1, 1, 1, 1, 1, 1, 1, 1, 1, 1, 1, 1, 1, 1, 1, 1, 1, 1, 1, 1, 1, 1, 1, 1, 1, 1, 1, 1, 1, 1, 1, 1, 1, 1, 1, 1, 1, 1, 1, 1, 1, 1, 1, 1, 1, 1, 1, 1, 1, 1, 1, 1>>,
    <<1, 1, 1, 1, 1, 1, 1, 1, 1, 1, 1, 1, 1, 1, 1, 1, 1, 1, 1, 1, 1, 1, 1, 1, 1, 1, 1, 1, 1, 1, 1, 1, 1, 1, 1, 1, 1, 1, 1, 1, 1, 1, 1, 1, 1, 1, 1, 1, 1, 1, 1, 1, 1, 1, 1, 1, 1, 1, 1, 1, 1, 1, 1, 1, 1, 1, 1, 1, 1, 1, 1, 1, 1, 1, 1, 1, 1, 1, 1, 1, 1, 1, 1, 1, 1, 1, 1, 1, 1, 1, 1, 1, 1, 1, 1, 1, 1>>,
    <<1, 1, 1, 1, 1, 1, 1, 1, 1, 1, 1, 1, 1, 1, 1, 1, 1, 1, 1, 1, 1, 1, 1, 1, 1, 1, 1, 1, 1, 1, 1, 1, 1, 1, 1, 1, 1, 1, 1, 1, 1, 1, 1, 1, 1, 1, 1, 1, 1, 1, 1, 1, 1, 1, 1, 1, 1, 1, 1, 1, 1, 1, 1, 1, 1, 1, 1, 1, 1, 1, 1, 1, 1, 1, 1, 1, 1, 1, 1, 1, 1, 1, 1, 1, 1, 1, 1, 1, 1, 1, 1, 1, 1, 1, 1, 1, 1>>,
    <<1, 1, 1, 1, 1, 1, 1, 1, 1, 1, 1, 1, 1, 1, 1, 1, 1, 1, 1, 1, 1, 1, 1, 1, 1, 1, 1, 1, 1, 1, 1, 1, 1, 1, 1, 1, 1, 1, 1, 1, 1, 1, 1, 1, 1, 1, 1, 1, 1, 1, 1, 1, 1, 1, 1, 1, 1, 1, 1, 1, 1, 1, 1, 1, 1, 1, 1, 1, 1, 1, 1, 1, 1, 1, 1, 1, 1, 1, 1, 1, 1, 1, 1, 1, 1, 1, 1, 1, 1, 1, 1, 1, 1, 1, 1, 1, 1>>,
    <<1, 1, 1, 1, 1, 1, 1, 1, 1, 1, 1, 1, 1, 1, 1, 1, 1, 1, 1, 1, 1, 1, 1, 1, 1, 1, 1, 1, 1, 1, 1, 1, 1, 1, 1, 1, 1, 1, 1, 1, 1, 1, 1, 1, 1, 1, 1, 1, 1, 1, 1, 1, 1, 1, 1, 1, 1, 1, 1, 1, 1, 1, 1, 1, 1, 1, 1, 1, 1, 1, 1, 1, 1, 1, 1, 1, 1, 1, 1, 1, 1, 1, 1, 1, 1, 1, 1, 1, 1, 1, 1, 1, 1, 1, 1, 1, 1>>,
    <<1, 1, 1, 1, 1, 1, 1, 1, 1, 1, 1, 1, 1, 1, 1, 1, 1, 1, 1, 1, 1, 1, 1, 1, 1, 1, 1, 1, 1, 1, 1, 1, 1, 1, 1, 1, 1, 1, 1, 1, 1, 1, 1, 1, 1, 1, 1, 1, 1, 1, 1, 1, 1, 1, 1, 1, 1, 1, 1, 1, 1, 1, 1, 1, 1, 1, 1, 1, 1, 1, 1, 1, 1, 1, 1, 1, 1, 1, 1, 1, 1, 1, 1, 1, 1, 1, 1, 1, 1, 1, 1, 1, 1, 1, 1, 1, 1>>,
    <<1, 1, 1, 1, 1, 1, 1, 1, 1, 1, 1, 1, 1, 1, 1, 1, 1, 1, 1, 1, 1, 1, 1, 1, 1, 1, 1, 1, 1, 1, 1, 1, 1, 1, 1, 1, 1, 1, 1, 1, 1, 1, 1, 1, 1, 1, 1, 1, 1, 1, 1, 1, 1, 1, 1, 1, 1, 1, 1, 1, 1, 1, 1, 1, 1, 1, 1, 1, 1, 1, 1, 1, 1, 1, 1, 1, 1, 1, 1, 1, 1, 1, 1, 1, 1, 1, 1, 1, 1, 1, 1, 1, 1, 1, 1, 1, 1>>,
    <<1, 1, 1, 1, 1, 1, 1, 1, 1, 1, 1, 1, 1, 1, 1, 1, 1, 1, 1, 1, 1, 1, 1, 1, 1, 1, 1, 1, 1, 1, 1, 1, 1, 1, 1, 1, 1, 1, 1, 1, 1, 1, 1, 1, 1, 1, 1, 1, 1, 1, 1, 1, 1, 1, 1, 1, 1, 1, 1, 1, 1, 1, 1, 1, 1, 1, 1, 1, 1, 1, 1, 1, 1, 1, 1, 1, 1, 1, 1, 1, 1, 1, 1, 1, 1, 1, 1, 1, 1, 1, 1, 1, 1, 1, 1, 1, 1>>,
    <<1, 1, 1, 1, 1, 1, 1, 1, 1, 1, 1, 1, 1, 1, 1, 1, 1, 1, 1, 1, 1, 1, 1, 1, 1, 1, 1, 1, 1, 1, 1, 1, 1, 1, 1, 1, 1, 1, 1, 1, 1, 1, 1, 1, 1, 1, 1, 1, 1, 1, 1, 1, 1, 1, 1, 1, 1, 1, 1, 1, 1, 1, 1, 1, 1, 1, 1, 1, 1, 1, 1, 1, 1, 1, 1, 1, 1, 1, 1, 1, 1, 1, 1, 1, 1, 1, 1, 1, 1, 1, 1, 1, 1, 1, 1, 1, 1>>,
    <<1, 1, 1, 1, 1, 1, 1, 1, 1, 1, 1, 1, 1, 1, 1, 1, 1, 1, 1, 1, 1, 1, 1, 1, 1, 1, 1, 1, 1, 1, 1, 1, 1, 1, 1, 1, 1, 1, 1, 1, 1, 1, 1, 1, 1, 1, 1, 1, 1, 1, 1, 1, 1, 1, 1, 1, 1, 1, 1, 1, 1, 1, 1, 1, 1, 1, 1, 1, 1, 1, 1, 1, 1, 1, 1, 1, 1, 1, 1, 1, 1, 1, 1, 1, 1, 1, 1, 1, 1, 1, 1, 1, 1, 1, 1, 1, 1>>,
    <<1, 1, 1, 1, 1, 1, 1, 1, 1, 1, 1, 1, 1, 1, 1, 1, 1, 1, 1, 1, 1, 1, 1, 1, 1, 1, 1, 1, 1, 1, 1, 1, 1, 1, 1, 1, 1, 1, 1, 1, 1, 1, 1, 1, 1, 1, 1, 1, 1, 1, 1, 1, 1, 1, 1, 1, 1, 1, 1, 1, 1, 1, 1, 1, 1, 1, 1, 1, 1, 1, 1, 1, 1, 1, 1, 1, 1, 1, 1, 1, 1, 1, 1, 1, 1, 1, 1, 1, 1, 1, 1, 1, 1, 1, 1, 1, 1>>,
    <<1, 1, 1, 1, 1, 1, 1, 1, 1, 1, 1, 1, 1, 1, 1, 1, 1, 1, 1, 1, 1, 1, 1, 1, 1, 1, 1, 1, 1, 1, 1, 1, 1, 1, 1, 1, 1, 1, 1, 1, 1, 1, 1, 1, 1, 1, 1, 1, 1, 1, 1, 1, 1, 1, 1, 1, 1, 1, 1, 1, 1, 1, 1, 1, 1, 1, 1, 1, 1, 1, 1, 1, 1, 1, 1, 1, 1, 1, 1, 1, 1, 1, 1, 1, 1, 1, 1, 1, 1, 1, 1, 1, 1, 1, 1, 1, 1>>,
    <<1, 1, 1, 1, 1, 1, 1, 1, 1, 1, 1, 1, 1, 1, 1, 1, 1, 1, 1, 1, 1, 1, 1, 1, 1, 1, 1, 1, 1, 1, 1, 1, 1, 1, 1, 1, 1, 1, 1, 1, 1, 1, 1, 1, 1, 1, 1, 1, 1, 1, 1, 1, 1, 1, 1, 1, 1, 1, 1, 1, 1, 1, 1, 1, 1, 1, 1, 1, 1, 1, 1, 1, 1, 1, 1, 1, 1, 1, 1, 1, 1, 1, 1, 1, 1, 1, 1, 1, 1, 1, 1, 1, 1, 1, 1, 1, 1>>,
    <<1, 1, 1, 1, 1, 1, 1, 1, 1, 1, 1, 1, 1, 1, 1, 1, 1, 1, 1, 1, 1, 1, 1, 1, 1, 1, 1, 1, 1, 1, 1, 1, 1, 1, 1, 1, 1, 1, 1, 1, 1, 1, 1, 1, 1, 1, 1, 1, 1, 1, 1, 1, 1, 1, 1, 1, 1, 1, 1, 1, 1, 1, 1, 1, 1, 1, 1, 1, 1, 1, 1, 1, 1, 1, 1, 1, 1, 1, 1, 1, 1, 1, 1, 1, 1, 1, 1, 1, 1, 1, 1, 1, 1, 1, 1, 1, 1>>,
    <<1, 1, 1, 1, 1, 1, 1, 1, 1, 1, 1, 1, 1, 1, 1, 1, 1, 1, 1, 1, 1, 1, 1, 1, 1, 1, 1, 1, 1, 1, 1, 1, 1, 1, 1, 1, 1, 1, 1, 1, 1, 1, 1, 1, 1, 1, 1, 1, 1, 1, 1, 1, 1, 1, 1, 1, 1, 1, 1, 1, 1, 1, 1, 1, 1, 1, 1, 1, 1, 1, 1, 1, 1, 1, 1, 1, 1, 1, 1, 1, 1, 1, 1, 1, 1, 1, 1, 1, 1, 1, 1, 1, 1, 1, 1, 1, 1>>,
    <<1, 1, 1, 1, 1, 1, 1, 1, 1, 1, 1, 1, 1, 1, 1, 1, 1, 1, 1, 1, 1, 1, 1, 1, 1, 1, 1, 1, 1, 1, 1, 1, 1, 1, 1, 1, 1, 1, 1, 1, 1, 1, 1, 1, 1, 1, 1, 1, 1, 1, 1, 1, 1, 1, 1, 1, 1, 1, 1, 1, 1, 1, 1, 1, 1, 1, 1, 1, 1, 1, 1, 1, 1, 1, 1, 1, 1, 1, 1, 1, 1, 1, 1, 1, 1, 1, 1, 1, 1, 1, 1, 1, 1, 1, 1, 1, 1>>,
    <<1, 1, 1, 1, 1, 1, 1, 1, 1, 1, 1, 1, 1, 1, 1, 1, 1, 1, 1, 1, 1, 1, 1, 1, 1, 1, 1, 1, 1, 1, 1, 1, 1, 1, 1, 1, 1, 1, 1, 1, 1, 1, 1, 1, 1, 1, 1, 1, 1, 1, 1, 1, 1, 1, 1, 1, 1, 1, 1, 1, 1, 1, 1, 1, 1, 1, 1, 1, 1, 1, 1, 1, 1, 1, 1, 1, 1, 1, 1, 1, 1, 1, 1, 1, 1, 1, 1, 1, 1, 1, 1, 1, 1, 1, 1, 1, 1>>,
    <<1, 1, 1, 1, 1, 1, 1, 1, 1, 1, 1, 1, 1, 1, 1, 1, 1, 1, 1, 1, 1, 1, 1, 1, 1, 1, 1, 1, 1, 1, 1, 1, 1, 1, 1, 1, 1, 1, 1, 1, 1, 1, 1, 1, 1, 1, 1, 1, 1, 1, 1, 1, 1, 1, 1, 1, 1, 1, 1, 1, 1, 1, 1, 1, 1, 1, 1, 1, 1, 1, 1, 1, 1, 1, 1, 1, 1, 1, 1, 1, 1, 1, 1, 1, 1, 1, 1, 1, 1, 1, 1, 1, 1, 1, 1, 1, 1>>,
    <<1, 1, 1, 1, 1, 1, 1, 1, 1, 1, 1, 1, 1, 1, 1, 1, 1, 1, 1, 1, 1, 1, 1, 1, 1, 1, 1, 1, 1, 1, 1, 1, 1, 1, 1, 1, 1, 1, 1, 1, 1, 1, 1, 1, 1, 1, 1, 1, 1, 1, 1, 1, 1, 1, 1, 1, 1, 1, 1, 1, 1, 1, 1, 1, 1, 1, 1, 1, 1, 1, 1, 1, 1, 1, 1, 1, 1, 1, 1, 1, 1, 1, 1, 1, 1, 1, 1, 1, 1, 1, 1, 1, 1, 1, 1, 1, 1>>,
    <<1, 1, 1, 1, 1, 1, 1, 1, 1, 1, 1, 1, 1, 1, 1, 1, 1, 1, 1, 1, 1, 1, 1, 1, 1, 1, 1, 1, 1, 1, 1, 1, 1, 1, 1, 1, 1, 1, 1, 1, 1, 1, 1, 1, 1, 1, 1, 1, 1, 1, 1, 1, 1, 1, 1, 1, 1, 1, 1, 1, 1, 1, 1, 1, 1, 1, 1, 1, 1, 1, 1, 1, 1, 1, 1, 1, 1, 1, 1, 1, 1, 1, 1, 1, 1, 1, 1, 1, 1, 1, 1, 1, 1, 1, 1, 1, 1>>,
    <<1, 1, 1, 1, 1, 1, 1, 1, 1, 1, 1, 1, 1, 1, 1, 1, 1, 1, 1, 1, 1, 1, 1, 1, 1, 1, 1, 1, 1, 1, 1, 1, 1, 1, 1, 1, 1, 1, 1, 1, 1, 1, 1, 1, 1, 1, 1, 1, 1, 1, 1, 1, 1, 1, 1, 1, 1, 1, 1, 1, 1, 1, 1, 1, 1, 1, 1, 1, 1, 1, 1, 1, 1, 1, 1, 1, 1, 1, 1, 1, 1, 1, 1, 1, 1, 1, 1, 1, 1, 1, 1, 1, 1, 1, 1, 1, 1>>,
    <<1, 1, 1, 1, 1, 1, 1, 1, 1, 1, 1, 1, 1, 1, 1, 1, 1, 1, 1, 1, 1, 1, 1, 1, 1, 1, 1, 1, 1, 1, 1, 1, 1, 1, 1, 1, 1, 1, 1, 1, 1, 1, 1, 1, 1, 1, 1, 1, 1, 1, 1, 1, 1, 1, 1, 1, 1, 1, 1, 1, 1, 1, 1, 1, 1, 1, 1, 1, 1, 1, 1, 1, 1, 1, 1, 1, 1, 1, 1, 1, 1, 1, 1, 1, 1, 1, 1, 1, 1, 1, 1, 1, 1, 1, 1, 1, 1>>,
    <<1, 1, 1, 1, 1, 1, 1, 1, 1, 1, 1, 1, 1, 1, 1, 1, 1, 1, 1, 1, 1, 1, 1, 1, 1, 1, 1, 1, 1, 1, 1, 1, 1, 1, 1, 1, 1, 1, 1, 1, 1, 1, 1, 1, 1, 1, 1, 1, 1, 1, 1, 1, 1, 1, 1, 1, 1, 1, 1, 1, 1, 1, 1, 1, 1, 1, 1, 1, 1, 1, 1, 1, 1, 1, 1, 1, 1, 1, 1, 1, 1, 1, 1, 1, 1, 1, 1, 1, 1, 1, 1, 1, 1, 1, 1, 1, 1>>,
    <<1, 1, 1, 1, 1, 1, 1, 1, 1, 1, 1, 1, 1, 1, 1, 1, 1, 1, 1, 1, 1, 1, 1, 1, 1, 1, 1, 1, 1, 1, 1, 1, 1, 1, 1, 1, 1, 1, 1, 1, 1, 1, 1, 1, 1, 1, 1, 1, 1, 1, 1, 1, 1, 1, 1, 1, 1, 1, 1, 1, 1, 1, 1, 1, 1, 1, 1, 1, 1, 1, 1, 1, 1, 1, 1, 1, 1, 1, 1, 1, 1, 1, 1, 1, 1, 1, 1, 1, 1, 1, 1, 1, 1, 1, 1, 1, 1>>,
    <<1, 1, 1, 1, 1, 1, 1, 1, 1, 1, 1, 1, 1, 1, 1, 1, 1, 1, 1, 1, 1, 1, 1, 1, 1, 1, 1, 1, 1, 1, 1, 1, 1, 1, 1, 1, 1, 1, 1, 1, 1, 1, 1, 1, 1, 1, 1, 1, 1, 1, 1, 1, 1, 1, 1, 1, 1, 1, 1, 1, 1, 1, 1, 1, 1, 1, 1, 1, 1, 1, 1, 1, 1, 1, 1, 1, 1, 1, 1, 1, 1, 1, 1, 1, 1, 1, 1, 1, 1, 1, 1, 1, 1, 1, 1, 1, 1>>,
    <<1, 1, 1, 1, 1, 1, 1, 1, 1, 1, 1, 1, 1, 1, 1, 1, 1, 1, 1, 1, 1, 1, 1, 1, 1, 1, 1, 1, 1, 1, 1, 1, 1, 1, 1, 1, 1, 1, 1, 1, 1, 1, 1, 1, 1, 1, 1, 1, 1, 1, 1, 1, 1, 1, 1, 1, 1, 1, 1, 1, 1, 1, 1, 1, 1, 1, 1, 1, 1, 1, 1, 1, 1, 1, 1, 1, 1, 1, 1, 1, 1, 1, 1, 1, 1, 1, 1, 1, 1, 1, 1, 1, 1, 1, 1, 1, 1>>,
    <<1, 1, 1, 1, 1, 1, 1, 1, 1, 1, 1, 1, 1, 1, 1, 1, 1, 1, 1, 1, 1, 1, 1, 1, 1, 1, 1, 1, 1, 1, 1, 1, 1, 1, 1, 1, 1, 1, 1, 1, 1, 1, 1, 1, 1, 1, 1, 1, 1, 1, 1, 1, 1, 1, 1, 1, 1, 1, 1, 1, 1, 1, 1, 1, 1, 1, 1, 1, 1, 1, 1, 1, 1, 1, 1, 1, 1, 1, 1, 1, 1, 1, 1, 1, 1, 1, 1, 1, 1, 1, 1, 1, 1, 1, 1, 1, 1>>,
    <<1, 1, 1, 1, 1, 1, 1, 1, 1, 1, 1, 1, 1, 1, 1, 1, 1, 1, 1, 1, 1, 1, 1, 1, 1, 1, 1, 1, 1, 1, 1, 1, 1, 1, 1, 1, 1, 1, 1, 1, 1, 1, 1, 1, 1, 1, 1, 1, 1, 1, 1, 1, 1, 1, 1, 1, 1, 1, 1, 1, 1, 1, 1, 1, 1, 1, 1, 1, 1, 1, 1, 1, 1, 1, 1, 1, 1, 1, 1, 1, 1, 1, 1, 1, 1, 1, 1, 1, 1, 1, 1, 1, 1, 1, 1, 1, 1>>,
    <<1, 1, 1, 1, 1, 1, 1, 1, 1, 1, 1, 1, 1, 1, 1, 1, 1, 1, 1, 1, 1, 1, 1, 1, 1, 1, 1, 1, 1, 1, 1, 1, 1, 1, 1, 1, 1, 1, 1, 1, 1, 1, 1, 1, 1, 1, 1, 1, 1, 1, 1, 1, 1, 1, 1, 1, 1, 1, 1, 1, 1, 1, 1, 1, 1, 1, 1, 1, 1, 1, 1, 1, 1, 1, 1, 1, 1, 1, 1, 1, 1, 1, 1, 1, 1, 1, 1, 1, 1, 1, 1, 1, 1, 1, 1, 1, 1>>,
    <<1, 1, 1, 1, 1, 1, 1, 1, 1, 1, 1, 1, 1, 1, 1, 1, 1, 1, 1, 1, 1, 1, 1, 1, 1, 1, 1, 1, 1, 1, 1, 1, 1, 1, 1, 1, 1, 1, 1, 1, 1, 1, 1, 1, 1, 1, 1, 1, 1, 1, 1, 1, 1, 1, 1, 1, 1, 1, 1, 1, 1, 1, 1, 1, 1, 1, 1, 1, 1, 1, 1, 1, 1, 1, 1, 1, 1, 1, 1, 1, 1, 1, 1, 1, 1, 1, 1, 1, 1, 1, 1, 1, 1, 1, 1, 1, 1>>,
    <<1, 1, 1, 1, 1, 1, 1, 1, 1, 1, 1, 1, 1, 1, 1, 1, 1, 1, 1, 1, 1, 1, 1, 1, 1, 1, 1, 1, 1, 1, 1, 1, 1, 1, 1, 1, 1, 1, 1, 1, 1, 1, 1, 1, 1, 1, 1, 1, 1, 1, 1, 1, 1, 1, 1, 1, 1, 1, 1, 1, 1, 1, 1, 1, 1, 1, 1, 1, 1, 1, 1, 1, 1, 1, 1, 1, 1, 1, 1, 1, 1, 1, 1, 1, 1, 1, 1, 1, 1, 1, 1, 1, 1, 1, 1, 1, 1>>,
    <<1, 1, 1, 1, 1, 1, 1, 1, 1, 1, 1, 1, 1, 1, 1, 1, 1, 1, 1, 1, 1, 1, 1, 1, 1, 1, 1, 1, 1, 1, 1, 1, 1, 1, 1, 1, 1, 1, 1, 1, 1, 1, 1, 1, 1, 1, 1, 1, 1, 1, 1, 1, 1, 1, 1, 1, 1, 1, 1, 1, 1, 1, 1, 1, 1, 1, 1, 1, 1, 1, 1, 1, 1, 1, 1, 1, 1, 1, 1, 1, 1, 1, 1, 1, 1, 1, 1, 1, 1, 1, 1, 1, 1, 1, 1, 1, 1>>,
    <<1, 1, 1, 1, 1, 1, 1, 1, 1, 1, 1, 1, 1, 1, 1, 1, 1, 1, 1, 1, 1, 1, 1, 1, 1, 1, 1, 1, 1, 1, 1, 1, 1, 1, 1, 1, 1, 1, 1, 1, 1, 1, 1, 1, 1, 1, 1, 1, 1, 1, 1, 1, 1, 1, 1, 1, 1, 1, 1, 1, 1, 1, 1, 1, 1, 1, 1, 1, 1, 1, 1, 1, 1, 1, 1, 1, 1, 1, 1, 1, 1, 1, 1, 1, 1, 1, 1, 1, 1, 1, 1, 1, 1, 1, 1, 1, 1>>,
    <<1, 1, 1, 1, 1, 1, 1, 1, 1, 1, 1, 1, 1, 1, 1, 1, 1, 1, 1, 1, 1, 1, 1, 1, 1, 1, 1, 1, 1, 1, 1, 1, 1, 1, 1, 1, 1, 1, 1, 1, 1, 1, 1, 1, 1, 1, 1, 1, 1, 1, 1, 1, 1, 1, 1, 1, 1, 1, 1, 1, 1, 1, 1, 1, 1, 1, 1, 1, 1, 1, 1, 1, 1, 1, 1, 1, 1, 1, 1, 1, 1, 1, 1, 1, 1, 1, 1, 1, 1, 1, 1, 1, 1, 1, 1, 1, 1>>,
    <<1, 1, 1, 1, 1, 1, 1, 1, 1, 1, 1, 1, 1, 1, 1, 1, 1, 1, 1, 1, 1, 1, 1, 1, 1, 1, 1, 1, 1, 1, 1, 1, 1, 1, 1, 1, 1, 1, 1, 1, 1, 1, 1, 1, 1, 1, 1, 1, 1, 1, 1, 1, 1, 1, 1, 1, 1, 1, 1, 1, 1, 1, 1, 1, 1, 1, 1, 1, 1, 1, 1, 1, 1, 1, 1, 1, 1, 1, 1, 1, 1, 1, 1, 1, 1, 1, 1, 1, 1, 1, 1, 1, 1, 1, 1, 1, 1>>,
    <<1, 1, 1, 1, 1, 1, 1, 1, 1, 1, 1, 1, 1, 1, 1, 1, 1, 1, 1, 1, 1, 1, 1, 1, 1, 1, 1, 1, 1, 1, 1, 1, 1, 1, 1, 1, 1, 1, 1, 1, 1, 1, 1, 1, 1, 1, 1, 1, 1, 1, 1, 1, 1, 1, 1, 1, 1, 1, 1, 1, 1, 1, 1, 1, 1, 1, 1, 1, 1, 1, 1, 1, 1, 1, 1, 1, 1, 1, 1, 1, 1, 1, 1, 1, 1, 1, 1, 1, 1, 1, 1, 1, 1, 1, 1, 1, 1>>,
    <<1, 1, 1, 1, 1, 1, 1, 1, 1, 1, 1, 1, 1, 1, 1, 1, 1, 1, 1, 1, 1, 1, 1, 1, 1, 1, 1, 1, 1, 1, 1, 1, 1, 1, 1, 1, 1, 1, 1, 1, 1, 1, 1, 1, 1, 1, 1, 1, 1, 1, 1, 1, 1, 1, 1, 1, 1, 1, 1, 1, 1, 1, 1, 1, 1, 1, 1, 1, 1, 1, 1, 1, 1, 1, 1, 1, 1, 1, 1, 1, 1, 1, 1, 1, 1, 1, 1, 1, 1, 1, 1, 1, 1, 1, 1, 1, 1>>,
    <<1, 1, 1, 1, 1, 1, 1, 1, 1, 1, 1, 1, 1, 1, 1, 1, 1, 1, 1, 1, 1, 1, 1, 1, 1, 1, 1, 1, 1, 1, 1, 1, 1, 1, 1, 1, 1, 1, 1, 1, 1, 1, 1, 1, 1, 1, 1, 1, 1, 1, 1, 1, 1, 1, 1, 1, 1, 1, 1, 1, 1, 1, 1, 1, 1, 1, 1, 1, 1, 1, 1, 1, 1, 1, 1, 1, 1, 1, 1, 1, 1, 1, 1, 1, 1, 1, 1, 1, 1, 1, 1, 1, 1, 1, 1, 1, 1>>,
    <<1, 1, 1, 1, 1, 1, 1, 1, 1, 1, 1, 1, 1, 1, 1, 1, 1, 1, 1, 1, 1, 1, 1, 1, 1, 1, 1, 1, 1, 1, 1, 1, 1, 1, 1, 1, 1, 1, 1, 1, 1, 1, 1, 1, 1, 1, 1, 1, 1, 1, 1, 1, 1, 1, 1, 1, 1, 1, 1, 1, 1, 1, 1, 1, 1, 1, 1, 1, 1, 1, 1, 1, 1, 1, 1, 1, 1, 1, 1, 1, 1, 1, 1, 1, 1, 1, 1, 1, 1, 1, 1, 1, 1, 1, 1, 1, 1>>,
    <<1, 1, 1, 1, 1, 1, 1, 1, 1, 1, 1, 1, 1, 1, 1, 1, 1, 1, 1, 1, 1, 1, 1, 1, 1, 1, 1, 1, 1, 1, 1, 1, 1, 1, 1, 1, 1, 1, 1, 1, 1, 1, 1, 1, 1, 1, 1, 1, 1, 1, 1, 1, 1, 1, 1, 1, 1, 1, 1, 1, 1, 1, 1, 1, 1, 1, 1, 1, 1, 1, 1, 1, 1, 1, 1, 1, 1, 1, 1, 1, 1, 1, 1, 1, 1, 1, 1, 1, 1, 1, 1, 1, 1, 1, 1, 1, 1>>,
    <<1, 1, 1, 1, 1, 1, 1, 1, 1, 1, 1, 1, 1, 1, 1, 1, 1, 1, 1, 1, 1, 1, 1, 1, 1, 1, 1, 1, 1, 1, 1, 1, 1, 1, 1, 1, 1, 1, 1, 1, 1, 1, 1, 1, 1, 1, 1, 1, 1, 1, 1, 1, 1, 1, 1, 1, 1, 1, 1, 1, 1, 1, 1, 1, 1, 1, 1, 1, 1, 1, 1, 1, 1, 1, 1, 1, 1, 1, 1, 1, 1, 1, 1, 1, 1, 1, 1, 1, 1, 1, 1, 1, 1, 1, 1, 1, 1>>,
    <<1, 1, 1, 1, 1, 1, 1, 1, 1, 1, 1, 1, 1, 1, 1, 1, 1, 1, 1, 1, 1, 1, 1, 1, 1, 1, 1, 1, 1, 1, 1, 1, 1, 1, 1, 1, 1, 1, 1, 1, 1, 1, 1, 1, 1, 1, 1, 1, 1, 1, 1, 1, 1, 1, 1, 1, 1, 1, 1, 1, 1, 1, 1, 1, 1, 1, 1, 1, 1, 1, 1, 1, 1, 1, 1, 1, 1, 1, 1, 1, 1, 1, 1, 1, 1, 1, 1, 1, 1, 1, 1, 1, 1, 1, 1, 1, 1>>,
    <<1, 1, 1, 1, 1, 1, 1, 1, 1, 1, 1, 1, 1, 1, 1, 1, 1, 1, 1, 1, 1, 1, 1, 1, 1, 1, 1, 1, 1, 1, 1, 1, 1, 1, 1, 1, 1, 1, 1, 1, 1, 1, 1, 1, 1, 1, 1, 1, 1, 1, 1, 1, 1, 1, 1, 1, 1, 1, 1, 1, 1, 1, 1, 1, 1, 1, 1, 1, 1, 1, 1, 1, 1, 1, 1, 1, 1, 1, 1, 1, 1, 1, 1, 1, 1, 1, 1, 1, 1, 1, 1, 1, 1, 1, 1, 1, 1>>,
    <<1, 1, 1, 1, 1, 1, 1, 1, 1, 1, 1, 1, 1, 1, 1, 1, 1, 1, 1, 1, 1, 1, 1, 1, 1, 1, 1, 1, 1, 1, 1, 1, 1, 1, 1, 1, 1, 1, 1, 1, 1, 1, 1, 1, 1, 1, 1, 1, 1, 1, 1, 1, 1, 1, 1, 1, 1, 1, 1, 1, 1, 1, 1, 1, 1, 1, 1, 1, 1, 1, 1, 1, 1, 1, 1, 1, 1, 1, 1, 1, 1, 1, 1, 1, 1, 1, 1, 1, 1, 1, 1, 1, 1, 1, 1, 1, 1>>,
    <<1, 1, 1, 1, 1, 1, 1, 1, 1, 1, 1, 1, 1, 1, 1, 1, 1, 1, 1, 1, 1, 1, 1, 1, 1, 1, 1, 1, 1, 1, 1, 1, 1, 1, 1, 1, 1, 1, 1, 1, 1, 1, 1, 1, 1, 1, 1, 1, 1, 1, 1, 1, 1, 1, 1, 1, 1, 1, 1, 1, 1, 1, 1, 1, 1, 1, 1, 1, 1, 1, 1, 1, 1, 1, 1, 1, 1, 1, 1, 1, 1, 1, 1, 1, 1, 1, 1, 1, 1, 1, 1, 1, 1, 1, 1, 1, 1>>,
    <<1, 1, 1, 1, 1, 1, 1, 1, 1, 1, 1, 1, 1, 1, 1, 1, 1, 1, 1, 1, 1, 1, 1, 1, 1, 1, 1, 1, 1, 1, 1, 1, 1, 1, 1, 1, 1, 1, 1, 1, 1, 1, 1, 1, 1, 1, 1, 1, 1, 1, 1, 1, 1, 1, 1, 1, 1, 1, 1, 1, 1, 1, 1, 1, 1, 1, 1, 1, 1, 1, 1, 1, 1, 1, 1, 1, 1, 1, 1, 1, 1, 1, 1, 1, 1, 1, 1, 1, 1, 1, 1, 1, 1, 1, 1, 1, 1>>,
    <<1, 1, 1, 1, 1, 1, 1, 1, 1, 1, 1, 1, 1, 1, 1, 1, 1, 1, 1, 1, 1, 1, 1, 1, 1, 1, 1, 1, 1, 1, 1, 1, 1, 1, 1, 1, 1, 1, 1, 1, 1, 1, 1, 1, 1, 1, 1, 1, 1, 1, 1, 1, 1, 1, 1, 1, 1, 1, 1, 1, 1, 1, 1, 1, 1, 1, 1, 1, 1, 1, 1, 1, 1, 1, 1, 1, 1, 1, 1, 1, 1, 1, 1, 1, 1, 1, 1, 1, 1, 1, 1, 1, 1, 1, 1, 1, 1>>,
    <<1, 1, 1, 1, 1, 1, 1, 1, 1, 1, 1, 1, 1, 1, 1, 1, 1, 1, 1, 1, 1, 1, 1, 1, 1, 1, 1, 1, 1, 1, 1, 1, 1, 1, 1, 1, 1, 1, 1, 1, 1, 1, 1, 1, 1, 1, 1, 1, 1, 1, 1, 1, 1, 1, 1, 1, 1, 1, 1, 1, 1, 1, 1, 1, 1, 1, 1, 1, 1, 1, 1, 1, 1, 1, 1, 1, 1, 1, 1, 1, 1, 1, 1, 1, 1, 1, 1, 1, 1, 1, 1, 1, 1, 1, 1, 1, 1>>,
    <<1, 1, 1, 1, 1, 1, 1, 1, 1, 1, 1, 1, 1, 1, 1, 1, 1, 1, 1, 1, 1, 1, 1, 1, 1, 1, 1, 1, 1, 1, 1, 1, 1, 1, 1, 1, 1, 1, 1, 1, 1, 1, 1, 1, 1, 1, 1, 1, 1, 1, 1, 1, 1, 1, 1, 1, 1, 1, 1, 1, 1, 1, 1, 1, 1, 1, 1, 1, 1, 1, 1, 1, 1, 1, 1, 1, 1, 1, 1, 1, 1, 1, 1, 1, 1, 1, 1, 1, 1, 1, 1, 1, 1, 1, 1, 1, 1>>,
    <<1, 1, 1, 1, 1, 1, 1, 1, 1, 1, 1, 1, 1, 1, 1, 1, 1, 1, 1, 1, 1, 1, 1, 1, 1, 1, 1, 1, 1, 1, 1, 1, 1, 1, 1, 1, 1, 1, 1, 1, 1, 1, 1, 1, 1, 1, 1, 1, 1, 1, 1, 1, 1, 1, 1, 1, 1, 1, 1, 1, 1, 1, 1, 1, 1, 1, 1, 1, 1, 1, 1, 1, 1, 1, 1, 1, 1, 1, 1, 1, 1, 1, 1, 1, 1, 1, 1, 1, 1, 1, 1, 1, 1, 1, 1, 1, 1>>,
    <<1, 1, 1, 1, 1, 1, 1, 1, 1, 1, 1, 1, 1, 1, 1, 1, 1, 1, 1, 1, 1, 1, 1, 1, 1, 1, 1, 1, 1, 1, 1, 1, 1, 1, 1, 1, 1, 1, 1, 1, 1, 1, 1, 1, 1, 1, 1, 1, 1, 1, 1, 1, 1, 1, 1, 1, 1, 1, 1, 1, 1, 1, 1, 1, 1, 1, 1, 1, 1, 1, 1, 1, 1, 1, 1, 1, 1, 1, 1, 1, 1, 1, 1, 1, 1, 1, 1, 1, 1, 1, 1, 1, 1, 1, 1, 1, 1>>,
    <<1, 1, 1, 1, 1, 1, 1, 1, 1, 1, 1, 1, 1, 1, 1, 1, 1, 1, 1, 1, 1, 1, 1, 1, 1, 1, 1, 1, 1, 1, 1, 1, 1, 1, 1, 1, 1, 1, 1, 1, 1, 1, 1, 1, 1, 1, 1, 1, 1, 1, 1, 1, 1, 1, 1, 1, 1, 1, 1, 1, 1, 1, 1, 1, 1, 1, 1, 1, 1, 1, 1, 1, 1, 1, 1, 1, 1, 1, 1, 1, 1, 1, 1, 1, 1, 1, 1, 1, 1, 1, 1, 1, 1, 1, 1, 1, 1>>,
    <<1, 1, 1, 1, 1, 1, 1, 1, 1, 1, 1, 1, 1, 1, 1, 1, 1, 1, 1, 1, 1, 1, 1, 1, 1, 1, 1, 1, 1, 1, 1, 1, 1, 1, 1, 1, 1, 1, 1, 1, 1, 1, 1, 1, 1, 1, 1, 1, 1, 1, 1, 1, 1, 1, 1, 1, 1, 1, 1, 1, 1, 1, 1, 1, 1, 1, 1, 1, 1, 1, 1, 1, 1, 1, 1, 1, 1, 1, 1, 1, 1, 1, 1, 1, 1, 1, 1, 1, 1, 1, 1, 1, 1, 1, 1, 1, 1>>,
    <<1, 1, 1, 1, 1, 1, 1, 1, 1, 1, 1, 1, 1, 1, 1, 1, 1, 1, 1, 1, 1, 1, 1, 1, 1, 1, 1, 1, 1, 1, 1, 1, 1, 1, 1, 1, 1, 1, 1, 1, 1, 1, 1, 1, 1, 1, 1, 1, 1, 1, 1, 1, 1, 1, 1, 1, 1, 1, 1, 1, 1, 1, 1, 1, 1, 1, 1, 1, 1, 1, 1, 1, 1, 1, 1, 1, 1, 1, 1, 1, 1, 1, 1, 1, 1, 1, 1, 1, 1, 1, 1, 1, 1, 1, 1, 1, 1>>,
    <<1, 1, 1, 1, 1, 1, 1, 1, 1, 1, 1, 1, 1, 1, 1, 1, 1, 1, 1, 1, 1, 1, 1, 1, 1, 1, 1, 1, 1, 1, 1, 1, 1, 1, 1, 1, 1, 1, 1, 1, 1, 1, 1, 1, 1, 1, 1, 1, 1, 1, 1, 1, 1, 1, 1, 1, 1, 1, 1, 1, 1, 1, 1, 1, 1, 1, 1, 1, 1, 1, 1, 1, 1, 1, 1, 1, 1, 1, 1, 1, 1, 1, 1, 1, 1, 1, 1, 1, 1, 1, 1, 1, 1, 1, 1, 1, 1>>,
    <<1, 1, 1, 1, 1, 1, 1, 1, 1, 1, 1, 1, 1, 1, 1, 1, 1, 1, 1, 1, 1, 1, 1, 1, 1, 1, 1, 1, 1, 1, 1, 1, 1, 1, 1, 1, 1, 1, 1, 1, 1, 1, 1, 1, 1, 1, 1, 1, 1, 1, 1, 1, 1, 1, 1, 1, 1, 1, 1, 1, 1, 1, 1, 1, 1, 1, 1, 1, 1, 1, 1, 1, 1, 1, 1, 1, 1, 1, 1, 1, 1, 1, 1, 1, 1, 1, 1, 1, 1, 1, 1, 1, 1, 1, 1, 1, 1>>,
    <<1, 1, 1, 1, 1, 1, 1, 1, 1, 1, 1, 1, 1, 1, 1, 1, 1, 1, 1, 1, 1, 1, 1, 1, 1, 1, 1, 1, 1, 1, 1, 1, 1, 1, 1, 1, 1, 1, 1, 1, 1, 1, 1, 1, 1, 1, 1, 1, 1, 1, 1, 1, 1, 1, 1, 1, 1, 1, 1, 1, 1, 1, 1, 1, 1, 1, 1, 1, 1, 1, 1, 1, 1, 1, 1, 1, 1, 1, 1, 1, 1, 1, 1, 1, 1, 1, 1, 1, 1, 1, 1, 1, 1, 1, 1, 1, 1>>,
    <<1, 1, 1, 1, 1, 1, 1, 1, 1, 1, 1, 1, 1, 1, 1, 1, 1, 1, 1, 1, 1, 1, 1, 1, 1, 1, 1, 1, 1, 1, 1, 1, 1, 1, 1, 1, 1, 1, 1, 1, 1, 1, 1, 1, 1, 1, 1, 1, 1, 1, 1, 1, 1, 1, 1, 1, 1, 1, 1, 1, 1, 1, 1, 1, 1, 1, 1, 1, 1, 1, 1, 1, 1, 1, 1, 1, 1, 1, 1, 1, 1, 1, 1, 1, 1, 1, 1, 1, 1, 1, 1, 1, 1, 1, 1, 1, 1>>,
    <<1, 1, 1, 1, 1, 1, 1, 1, 1, 1, 1, 1, 1, 1, 1, 1, 1, 1, 1, 1, 1, 1, 1, 1, 1, 1, 1, 1, 1, 1, 1, 1, 1, 1, 1, 1, 1, 1, 1, 1, 1, 1, 1, 1, 1, 1, 1, 1, 1, 1, 1, 1, 1, 1, 1, 1, 1, 1, 1, 1, 1, 1, 1, 1, 1, 1, 1, 1, 1, 1, 1, 1, 1, 1, 1, 1, 1, 1, 1, 1, 1, 1, 1, 1, 1, 1, 1, 1, 1, 1, 1, 1, 1, 1, 1, 1, 1>>,
    <<1, 1, 1, 1, 1, 1, 1, 1, 1, 1, 1, 1, 1, 1, 1, 1, 1, 1, 1, 1, 1, 1, 1, 1, 1, 1, 1, 1, 1, 1, 1, 1, 1, 1, 1, 1, 1, 1, 1, 1, 1, 1, 1, 1, 1, 1, 1, 1, 1, 1, 1, 1, 1, 1, 1, 1, 1, 1, 1, 1, 1, 1, 1, 1, 1, 1, 1, 1, 1, 1, 1, 1, 1, 1, 1, 1, 1, 1, 1, 1, 1, 1, 1, 1, 1, 1, 1, 1, 1, 1, 1, 1, 1, 1, 1, 1, 1>>,
    <<1, 1, 1, 1, 1, 1, 1, 1, 1, 1, 1, 1, 1, 1, 1, 1, 1, 1, 1, 1, 1, 1, 1, 1, 1, 1, 1, 1, 1, 1, 1, 1, 1, 1, 1, 1, 1, 1, 1, 1, 1, 1, 1, 1, 1, 1, 1, 1, 1, 1, 1, 1, 1, 1, 1, 1, 1, 1, 1, 1, 1, 1, 1, 1, 1, 1, 1, 1, 1, 1, 1, 1, 1, 1, 1, 1, 1, 1, 1, 1, 1, 1, 1, 1, 1, 1, 1, 1, 1, 1, 1, 1, 1, 1, 1, 1, 1>>,
    <<1, 1, 1, 1, 1, 1, 1, 1, 1, 1, 1, 1, 1, 1, 1, 1, 1, 1, 1, 1, 1, 1, 1, 1, 1, 1, 1, 1, 1, 1, 1, 1, 1, 1, 1, 1, 1, 1, 1, 1, 1, 1, 1, 1, 1, 1, 1, 1, 1, 1, 1, 1, 1, 1, 1, 1, 1, 1, 1, 1, 1, 1, 1, 1, 1, 1, 1, 1, 1, 1, 1, 1, 1, 1, 1, 1, 1, 1, 1, 1, 1, 1, 1, 1, 1, 1, 1, 1, 1, 1, 1, 1, 1, 1, 1, 1, 1>>
  >>
EscapeTable50000 ==
  <<
    <<1, 1, 1, 1, 1, 1, 1, 1, 1, 1, 1, 1, 1, 1, 1, 1, 1, 1, 1, 1, 1, 1, 1, 1, 1, 1, 1, 1, 1, 1, 1, 1, 1, 1, 1, 1, 1, 1, 1, 1, 1, 1, 1, 1, 1, 1, 1, 1, 1, 1, 1, 1, 1, 1, 1, 1, 1, 1, 1, 1, 1, 1, 1, 1, 1, 1, 1, 1, 1, 1, 1, 1, 1, 1, 1, 1, 1, 1, 1, 1, 1, 1, 1, 1, 1, 1, 1, 1, 1, 1, 1, 1, 1, 1, 1, 1, 1>>,
    <<1, 1, 1, 1, 1, 1, 1, 1, 1, 1, 1, 1, 1, 1, 1, 1, 1, 1, 1, 1, 1, 1, 1, 1, 1, 1, 1, 1, 1, 1, 1, 1, 1, 1, 1, 1, 1, 1, 1, 1, 1, 1, 1, 1, 1, 1, 1, 1, 1, 1, 1, 1, 1, 1, 1, 1, 1, 1, 1, 1, 1, 1, 1, 1, 1, 1, 1, 1, 1, 1, 1, 1, 1, 1, 1, 1, 1, 1, 1, 1, 1, 1, 1, 1, 1, 1, 1, 1, 1, 1, 1, 1, 1, 1, 1, 1, 1>>,
    <<1, 1, 1, 1, 1, 1, 1, 1, 1, 1, 1, 1, 1, 1, 1, 1, 1, 1, 1, 1, 1, 1, 1, 1, 1, 1, 1, 1, 1, 1, 1, 1, 1, 1, 1, 1, 1, 1, 1, 1, 1, 1, 1, 1, 1, 1, 1, 1, 1, 1, 1, 1, 1, 1, 1, 1, 1, 1, 1, 1, 1, 1, 1, 1, 1, 1, 1, 1, 1, 1, 1, 1, 1, 1, 1, 1, 1, 1, 1, 1, 1, 1, 1, 1, 1, 1, 1, 1, 1, 1, 1, 1, 1, 1, 1, 1, 1>>,
    <<1, 1, 1, 1, 1, 1, 1, 1, 1, 1, 1, 1, 1, 1, 1, 1, 1, 1, 1, 1, 1, 1, 1, 1, 1, 1, 1, 1, 1, 1, 1, 1, 1, 1, 1, 1, 1, 1, 1, 1, 1, 1, 1, 1, 1, 1, 1, 1, 1, 1, 1, 1, 1, 1, 1, 1, 1, 1, 1, 1, 1, 1, 1, 1, 1, 1, 1, 1, 1, 1, 1, 1, 1, 1, 1, 1, 1, 1, 1, 1, 1, 1, 1, 1, 1, 1, 1, 1, 1, 1, 1, 1, 1, 1, 1, 1, 1>>,
    <<1, 1, 1, 1, 1, 1, 1, 1, 1, 1, 1, 1, 1, 1, 1, 1, 1, 1, 1, 1, 1, 1, 1, 1, 1, 1, 1, 1, 1, 1, 1, 1, 1, 1, 1, 1, 1, 1, 1, 1, 1, 1, 1, 1, 1, 1, 1, 1, 1, 1, 1, 1, 1, 1, 1, 1, 1, 1, 1, 1, 1, 1, 1, 1, 1, 1, 1, 1, 1, 1, 1, 1, 1, 1, 1, 1, 1, 1, 1, 1, 1, 1, 1, 1, 1, 1, 1, 1, 1, 1, 1, 1, 1, 1, 1, 1, 1>>,
    <<1, 1, 1, 1, 1, 1, 1, 1, 1, 1, 1, 1, 1, 1, 1, 1, 1, 1, 1, 1, 1, 1, 1, 1, 1, 1, 1, 1, 1, 1, 1, 1, 1, 1, 1, 1, 1, 1, 1, 1, 1, 1, 1, 1, 1, 1, 1, 1, 1, 1, 1, 1, 1, 1, 1, 1, 1, 1, 1, 1, 1, 1, 1, 1, 1, 1, 1, 1, 1, 1, 1, 1, 1, 1, 1, 1, 1, 1, 1, 1, 1, 1, 1, 1, 1, 1, 1, 1, 1, 1, 1, 1, 1, 1, 1, 1, 1>>,
    <<1, 1, 1, 1, 1, 1, 1, 1, 1, 1, 1, 1, 1, 1, 1, 1, 1, 1, 1, 1, 1, 1, 1, 1, 1, 1, 1, 1, 1, 1, 1, 1, 1, 1, 1, 1, 1, 1, 1, 1, 1, 1, 1, 1, 1, 1, 1, 1, 1, 1, 1, 1, 1, 1, 1, 1, 1, 1, 1, 1, 1, 1, 1, 1, 1, 1, 1, 1, 1, 1, 1, 1, 1, 1, 1, 1, 1, 1, 1, 1, 1, 1, 1, 1, 1, 1, 1, 1, 1, 1, 1, 1, 1, 1, 1, 1, 1>>,
    <<1, 1, 1, 1, 1, 1, 1, 1, 1, 1, 1, 1, 1, 1, 1, 1, 1, 1, 1, 1, 1, 1, 1, 1, 1, 1, 1, 1, 1, 1, 1, 1, 1, 1, 1, 1, 1, 1, 1, 1, 1, 1, 1, 1, 1, 1, 1, 1, 1, 1, 1, 1, 1, 1, 1, 1, 1, 1, 1, 1, 1, 1, 1, 1, 1, 1, 1, 1, 1, 1, 1, 1, 1, 1, 1, 1, 1, 1, 1, 1, 1, 1, 1, 1, 1, 1, 1, 1, 1, 1, 1, 1, 1, 1, 1, 1, 1>>,
    <<1, 1, 1, 1, 1, 1, 1, 1, 1, 1, 1, 1, 1, 1, 1, 1, 1, 1, 1, 1, 1, 1, 1, 1, 1, 1, 1, 1, 1, 1, 1, 1, 1, 1, 1, 1, 1, 1, 1, 1, 1, 1, 1, 1, 1, 1, 1, 1, 1, 1, 1, 1, 1, 1, 1, 1, 1, 1, 1, 1, 1, 1, 1, 1, 1, 1, 1, 1, 1, 1, 1, 1, 1, 1, 1, 1, 1, 1, 1, 1, 1, 1, 1, 1, 1, 1, 1, 1, 1, 1, 1, 1, 1, 1, 1, 1, 1>>,
    <<1, 1, 1, 1, 1, 1, 1, 1, 1, 1, 1, 1, 1, 1, 1, 1, 1, 1, 1, 1, 1, 1, 1, 1, 1, 1, 1, 1, 1, 1, 1, 1, 1, 1, 1, 1, 1, 1, 1, 1, 1, 1, 1, 1, 1, 1, 1, 1, 1, 1, 1, 1, 1, 1, 1, 1, 1, 1, 1, 1, 1, 1, 1, 1, 1, 1, 1, 1, 1, 1, 1, 1, 1, 1, 1, 1, 1, 1, 1, 1, 1, 1, 1, 1, 1, 1, 1, 1, 1, 1, 1, 1, 1, 1, 1, 1, 1>>,
    <<1, 1, 1, 1, 1, 1, 1, 1, 1, 1, 1, 1, 1, 1, 1, 1, 1, 1, 1, 1, 1, 1, 1, 1, 1, 1, 1, 1, 1, 1, 1, 1, 1, 1, 1, 1, 1, 1, 1, 1, 1, 1, 1, 1, 1, 1, 1, 1, 1, 1, 1, 1, 1, 1, 1, 1, 1, 1, 1, 1, 1, 1, 1, 1, 1, 1, 1, 1, 1, 1, 1, 1, 1, 1, 1, 1, 1, 1, 1, 1, 1, 1, 1, 1, 1, 1, 1, 1, 1, 1, 1, 1, 1, 1, 1, 1, 1>>,
    <<1, 1, 1, 1, 1, 1, 1, 1, 1, 1, 1, 1, 1, 1, 1, 1, 1, 1, 1, 1, 1, 1, 1, 1, 1, 1, 1, 1, 1, 1, 1, 1, 1, 1, 1, 1, 1, 1, 1, 1, 1, 1, 1, 1, 1, 1, 1, 1, 1, 1, 1, 1, 1, 1, 1, 1, 1, 1, 1, 1, 1, 1, 1, 1, 1, 1, 1, 1, 1, 1, 1, 1, 1, 1, 1, 1, 1, 1, 1, 1, 1, 1, 1, 1, 1, 1, 1, 1, 1, 1, 1, 1, 1, 1, 1, 1, 1>>,
    <<1, 1, 1, 1, 1, 1, 1, 1, 1, 1, 1, 1, 1, 1, 1, 1, 1, 1, 1, 1, 1, 1, 1, 1, 1, 1, 1, 1, 1, 1, 1, 1, 1, 1, 1, 1, 1, 1, 1, 1, 1, 1, 1, 1, 1, 1, 1, 1, 1, 1, 1, 1, 1, 1, 1, 1, 1, 1, 1, 1, 1, 1, 1, 1, 1, 1, 1, 1, 1, 1, 1, 1, 1, 1, 1, 1, 1, 1, 1, 1, 1, 1, 1, 1, 1, 1, 1, 1, 1, 1, 1, 1, 1, 1, 1, 1, 1>>,
    <<1, 1, 1, 1, 1, 1, 1, 1, 1, 1, 1, 1, 1, 1, 1, 1, 1, 1, 1, 1, 1, 1, 1, 1, 1, 1, 1, 1, 1, 1, 1, 1, 1, 1, 1, 1, 1, 1, 1, 1, 1, 1, 1, 1, 1, 1, 1, 1, 1, 1, 1, 1, 1, 1, 1, 1, 1, 1, 1, 1, 1, 1, 1, 1, 1, 1, 1, 1, 1, 1, 1, 1, 1, 1, 1, 1, 1, 1, 1, 1, 1, 1, 1, 1, 1, 1, 1, 1, 1, 1, 1, 1, 1, 1, 1, 1, 1>>,
    <<1, 1, 1, 1, 1, 1, 1, 1, 1, 1, 1, 1, 1, 1, 1, 1, 1, 1, 1, 1, 1, 1, 1, 1, 1, 1, 1, 1, 1, 1, 1, 1, 1, 1, 1, 1, 1, 1, 1, 1, 1, 1, 1, 1, 1, 1, 1, 1, 1, 1, 1, 1, 1, 1, 1, 1, 1, 1, 1, 1, 1, 1, 1, 1, 1, 1, 1, 1, 1, 1, 1, 1, 1, 1, 1, 1, 1, 1, 1, 1, 1, 1, 1, 1, 1, 1, 1, 1, 1, 1, 1, 1, 1, 1, 1, 1, 1>>,
    <<1, 1, 1, 1, 1, 1, 1, 1, 1, 1, 1, 1, 1, 1, 1, 1, 1, 1, 1, 1, 1, 1, 1, 1, 1, 1, 1, 1, 1, 1, 1, 1, 1, 1, 1, 1, 1, 1, 1, 1, 1, 1, 1, 1, 1, 1, 1, 1, 1, 1, 1, 1, 1, 1, 1, 1, 1, 1, 1, 1, 1, 1, 1, 1, 1, 1, 1, 1, 1, 1, 1, 1, 1, 1, 1, 1, 1, 1, 1, 1, 1, 1, 1, 1, 1, 1, 1, 1, 1, 1, 1, 1, 1, 1, 1, 1, 1>>,
    <<1, 1, 1, 1, 1, 1, 1, 1, 1, 1, 1, 1, 1, 1, 1, 1, 1, 1, 1, 1, 1, 1, 1, 1, 1, 1, 1, 1, 1, 1, 1, 1, 1, 1, 1, 1, 1, 1, 1, 1, 1, 1, 1, 1, 1, 1, 1, 1, 1, 1, 1, 1, 1, 1, 1, 1, 1, 1, 1, 1, 1, 1, 1, 1, 1, 1, 1, 1, 1, 1, 1, 1, 1, 1, 1, 1, 1, 1, 1, 1, 1, 1, 1, 1, 1, 1, 1, 1, 1, 1, 1, 1, 1, 1, 1, 1, 1>>,
    <<1, 1, 1, 1, 1, 1, 1, 1, 1, 1, 1, 1, 1, 1, 1, 1, 1, 1, 1, 1, 1, 1, 1, 1, 1, 1, 1, 1, 1, 1, 1, 1, 1, 1, 1, 1, 1, 1, 1, 1, 1, 1, 1, 1, 1, 1, 1, 1, 1, 1, 1, 1, 1, 1, 1, 1, 1, 1, 1, 1, 1, 1, 1, 1, 1, 1, 1, 1, 1, 1, 1, 1, 1, 1, 1, 1, 1, 1, 1, 1, 1, 1, 1, 1, 1, 1, 1, 1, 1, 1, 1, 1, 1, 1, 1, 1, 1>>,
    <<1, 1, 1, 1, 1, 1, 1, 1, 1, 1, 1, 1, 1, 1, 1, 1, 1, 1, 1, 1, 1, 1, 1, 1, 1, 1, 1, 1, 1, 1, 1, 1, 1, 1, 1, 1, 1, 1, 1, 1, 1, 1, 1, 1, 1, 1, 1, 1, 1, 1, 1, 1, 1, 1, 1, 1, 1, 1, 1, 1, 1, 1, 1, 1, 1, 1, 1, 1, 1, 1, 1, 1, 1, 1, 1, 1, 1, 1, 1, 1, 1, 1, 1, 1, 1, 1, 1, 1, 1, 1, 1, 1, 1, 1, 1, 1, 1>>,
    <<1, 1, 1, 1, 1, 1, 1, 1, 1, 1, 1, 1, 1, 1, 1, 1, 1, 1, 1, 1, 1, 1, 1, 1, 1, 1, 1, 1, 1, 1, 1, 1, 1, 1, 1, 1, 1, 1, 1, 1, 1, 1, 1, 1, 1, 1, 1, 1, 1, 1, 1, 1, 1, 1, 1, 1, 1, 1, 1, 1, 1, 1, 1, 1, 1, 1, 1, 1, 1, 1, 1, 1, 1, 1, 1, 1, 1, 1, 1, 1, 1, 1, 1, 1, 1, 1, 1, 1, 1, 1, 1, 1, 1, 1, 1, 1, 1>>,
    <<1, 1, 1, 1, 1, 1, 1, 1, 1, 1, 1, 1, 1, 1, 1, 1, 1, 1, 1, 1, 1, 1, 1, 1, 1, 1, 1, 1, 1, 1, 1, 1, 1, 1, 1, 1, 1, 1, 1, 1, 1, 1, 1, 1, 1, 1, 1, 1, 1, 1, 1, 1, 1, 1, 1, 1, 1, 1, 1, 1, 1, 1, 1, 1, 1, 1, 1, 1, 1, 1, 1, 1, 1, 1, 1, 1, 1, 1, 1, 1, 1, 1, 1, 1, 1, 1, 1, 1, 1, 1, 1, 1, 1, 1, 1, 1, 1>>,
    <<1, 1, 1, 1, 1, 1, 1, 1, 1, 1, 1, 1, 1, 1, 1, 1, 1, 1, 1, 1, 1, 1, 1, 1, 1, 1, 1, 1, 1, 1, 1, 1, 1, 1, 1, 1, 1, 1, 1, 1, 1, 1, 1, 1, 1, 1, 1, 1, 1, 1, 1, 1, 1, 1, 1, 1, 1, 1, 1, 1, 1, 1, 1, 1, 1, 1, 1, 1, 1, 1, 1, 1, 1, 1, 1, 1, 1, 1, 1, 1, 1, 1, 1, 1, 1, 1, 1, 1, 1, 1, 1, 1, 1, 1, 1, 1, 1>>,
    <<1, 1, 1, 1, 1, 1, 1, 1, 1, 1, 1, 1, 1, 1, 1, 1, 1, 1, 1, 1, 1, 1, 1, 1, 1, 1, 1, 1, 1, 1, 1, 1, 1, 1, 1, 1, 1, 1, 1, 1, 1, 1, 1, 1, 1, 1, 1, 1, 1, 1, 1, 1, 1, 1, 1, 1, 1, 1, 1, 1, 1, 1, 1, 1, 1, 1, 1, 1, 1, 1, 1, 1, 1, 1, 1, 1, 1, 1, 1, 1, 1, 1, 1, 1, 1, 1, 1, 1, 1, 1, 1, 1, 1, 1, 1, 1, 1>>,
    <<1, 1, 1, 1, 1, 1, 1, 1, 1, 1, 1, 1, 1, 1, 1, 1, 1, 1, 1, 1, 1, 1, 1, 1, 1, 1, 1, 1, 1, 1, 1, 1, 1, 1, 1, 1, 1, 1, 1, 1, 1, 1, 1, 1, 1, 1, 1, 1, 1, 1, 1, 1, 1, 1, 1, 1, 1, 1, 1, 1, 1, 1, 1, 1, 1, 1, 1, 1, 1, 1, 1, 1, 1, 1, 1, 1, 1, 1, 1, 1, 1, 1, 1, 1, 1, 1, 1, 1, 1, 1, 1, 1, 1, 1, 1, 1, 1>>,
    <<1, 1, 1, 1, 1, 1, 1, 1, 1, 1, 1, 1, 1, 1, 1, 1, 1, 1, 1, 1, 1, 1, 1, 1, 1, 1, 1, 1, 1, 1, 1, 1, 1, 1, 1, 1, 1, 1, 1, 1, 1, 1, 1, 1, 1, 1, 1, 1, 1, 1, 1, 1, 1, 1, 1, 1, 1, 1, 1, 1, 1, 1, 1, 1, 1, 1, 1, 1, 1, 1, 1, 1, 1, 1, 1, 1, 1, 1, 1, 1, 1, 1, 1, 1, 1, 1, 1, 1, 1, 1, 1, 1, 1, 1, 1, 1, 1>>,
    <<1, 1, 1, 1, 1, 1, 1, 1, 1, 1, 1, 1, 1, 1, 1, 1, 1, 1, 1, 1, 1, 1, 1, 1, 1, 1, 1, 1, 1, 1, 1, 1, 1, 1, 1, 1, 1, 1, 1, 1, 1, 1, 1, 1, 1, 1, 1, 1, 1, 1, 1, 1, 1, 1, 1, 1, 1, 1, 1, 1, 1, 1, 1, 1, 1, 1, 1, 1, 1, 1, 1, 1, 1, 1, 1, 1, 1, 1, 1, 1, 1, 1, 1, 1, 1, 1, 1, 1, 1, 1, 1, 1, 1, 1, 1, 1, 1>>,
    <<1, 1, 1, 1, 1, 1, 1, 1, 1, 1, 1, 1, 1, 1, 1, 1, 1, 1, 1, 1, 1, 1, 1, 1, 1, 1, 1, 1, 1, 1, 1, 1, 1, 1, 1, 1, 1, 1, 1, 1, 1, 1, 1, 1, 1, 1, 1, 1, 1, 1, 1, 1, 1, 1, 1, 1, 1, 1, 1, 1, 1, 1, 1, 1, 1, 1, 1, 1, 1, 1, 1, 1, 1, 1, 1, 1, 1, 1, 1, 1, 1, 1, 1, 1, 1, 1, 1, 1, 1, 1, 1, 1, 1, 1, 1, 1, 1>>,
    <<1, 1, 1, 1, 1, 1, 1, 1, 1, 1, 1, 1, 1, 1, 1, 1, 1, 1, 1, 1, 1, 1, 1, 1, 1, 1, 1, 1, 1, 1, 1, 1, 1, 1, 1, 1, 1, 1, 1, 1, 1, 1, 1, 1, 1, 1, 1, 1, 1, 1, 1, 1, 1, 1, 1, 1, 1, 1, 1, 1, 1, 1, 1, 1, 1, 1, 1, 1, 1, 1, 1, 1, 1, 1, 1, 1, 1, 1, 1, 1, 1, 1, 1, 1, 1, 1, 1, 1, 1, 1, 1, 1, 1, 1, 1, 1, 1>>,
    <<1, 1, 1, 1, 1, 1, 1, 1, 1, 1, 1, 1, 1, 1, 1, 1, 1, 1, 1, 1, 1, 1, 1, 1, 1, 1, 1, 1, 1, 1, 1, 1, 1, 1, 1, 1, 1, 1, 1, 1, 1, 1, 1, 1, 1, 1, 1, 1, 1, 1, 1, 1, 1, 1, 1, 1, 1, 1, 1, 1, 1, 1, 1, 1, 1, 1, 1, 1, 1, 1, 1, 1, 1, 1, 1, 1, 1, 1, 1, 1, 1, 1, 1, 1, 1, 1, 1, 1, 1, 1, 1, 1, 1, 1, 1, 1, 1>>,
    <<1, 1, 1, 1, 1, 1, 1, 1, 1, 1, 1, 1, 1, 1, 1, 1, 1, 1, 1, 1, 1, 1, 1, 1, 1, 1, 1, 1, 1, 1, 1, 1, 1, 1, 1, 1, 1, 1, 1, 1, 1, 1, 1, 1, 1, 1, 1, 1, 1, 1, 1, 1, 1, 1, 1, 1, 1, 1, 1, 1, 1, 1, 1, 1, 1, 1, 1, 1, 1, 1, 1, 1, 1, 1, 1, 1, 1, 1, 1, 1, 1, 1, 1, 1, 1, 1, 1, 1, 1, 1, 1, 1, 1, 1, 1, 1, 1>>,
    <<1, 1, 1, 1, 1, 1, 1, 1, 1, 1, 1, 1, 1, 1, 1, 1, 1, 1, 1, 1, 1, 1, 1, 1, 1, 1, 1, 1, 1, 1, 1, 1, 1, 1, 1, 1, 1, 1, 1, 1, 1, 1, 1, 1, 1, 1, 1, 1, 1, 1, 1, 1, 1, 1, 1, 1, 1, 1, 1, 1, 1, 1, 1, 1, 1, 1, 1, 1, 1, 1, 1, 1, 1, 1, 1, 1, 1, 1, 1, 1, 1, 1, 1, 1, 1, 1, 1, 1, 1, 1, 1, 1, 1, 1, 1, 1, 1>>,
    <<1, 1, 1, 1, 1, 1, 1, 1, 1, 1, 1, 1, 1, 1, 1, 1, 1, 1, 1, 1, 1, 1, 1, 1, 1, 1, 1, 1, 1, 1, 1, 1, 1, 1, 1, 1, 1, 1, 1, 1, 1, 1, 1, 1, 1, 1, 1, 1, 1, 1, 1, 1, 1, 1, 1, 1, 1, 1, 1, 1, 1, 1, 1, 1, 1, 1, 1, 1, 1, 1, 1, 1, 1, 1, 1, 1, 1, 1, 1, 1, 1, 1, 1, 1, 1, 1, 1, 1, 1, 1, 1, 1, 1, 1, 1, 1, 1>>,
    <<1, 1, 1, 1, 1, 1, 1, 1, 1, 1, 1, 1, 1, 1, 1, 1, 1, 1, 1, 1, 1, 1, 1, 1, 1, 1, 1, 1, 1, 1, 1, 1, 50000, 1, 1, 1, 1, 1, 1, 1, 1, 1, 1, 1, 1, 1, 1, 1, 1, 1, 1, 1, 1, 1, 1, 1, 1, 1, 1, 1, 1, 1, 1, 1, 1, 1, 1, 1, 1, 1, 1, 1, 1, 1, 1, 1, 1, 1, 1, 1, 1, 1, 1, 1, 1, 1, 1, 1, 1, 1, 1, 1, 1, 1, 1, 1, 1>>,
    <<1, 1, 1, 1, 1, 1, 1, 1, 1, 1, 1, 1, 1, 1, 1, 1, 1, 1, 1, 1, 1, 1, 1, 1, 1, 2, 3, 3, 3, 4, 4, 5, 50000, 5, 4, 4, 3, 3, 3, 2, 1, 1, 1, 1, 1, 1, 1, 1, 1, 1, 1, 1, 1, 1, 1, 1, 1, 1, 1, 1, 1, 1, 1, 1, 1, 1, 1, 1, 1, 1, 1, 1, 1, 1, 1, 1, 1, 1, 1, 1, 1, 1, 1, 1, 1, 1, 1, 1, 1, 1, 1, 1, 1, 1, 1, 1, 1>>,
    <<1, 1, 1, 1, 1, 1, 1, 1, 1, 1, 1, 1, 1, 1, 1, 1, 1, 1, 1, 1, 1, 2, 2, 2, 3, 3, 3, 3, 4, 4, 4, 5, 50000, 5, 4, 4, 4, 3, 3, 3, 3, 2, 2, 2, 1, 1, 1, 1, 1, 1, 1, 1, 1, 1, 1, 1, 1, 1, 1, 1, 1, 1, 1, 1, 1, 1, 1, 1, 1, 1, 1, 1, 1, 1, 1, 1, 1, 1, 1, 1, 1, 1, 1, 1, 1, 1, 1, 1, 1, 1, 1, 1, 1, 1, 1, 1, 1>>,
    <<1, 1, 1, 1, 1, 1, 1, 1, 1, 1, 1, 1, 1, 1, 1, 1, 1, 1, 1, 2, 2, 2, 3, 3, 3, 3, 3, 3, 4, 4, 4, 6, 50000, 6, 4, 4, 4, 3, 3, 3, 3, 3, 3, 2, 2, 2, 1, 1, 1, 1, 1, 1, 1, 1, 1, 1, 1, 1, 1, 1, 1, 1, 1, 1, 1, 1, 1, 1, 1, 1, 1, 1, 1, 1, 1, 1, 1, 1, 1, 1, 1, 1, 1, 1, 1, 1, 1, 1, 1, 1, 1, 1, 1, 1, 1, 1, 1>>,
    <<1, 1, 1, 1, 1, 1, 1, 1, 1, 1, 1, 1, 1, 1, 1, 1, 1, 2, 2, 2, 2, 3, 3, 3, 3, 3, 3, 4, 4, 4, 4, 7, 50000, 7, 4, 4, 4, 4, 3, 3, 3, 3, 3, 3, 2, 2, 2, 2, 1, 1, 1, 1, 1, 1, 1, 1, 1, 1, 1, 1, 1, 1, 1, 1, 1, 1, 1, 1, 1, 1, 1, 1, 1, 1, 1, 1, 1, 1, 1, 1, 1, 1, 1, 1, 1, 1, 1, 1, 1, 1, 1, 1, 1, 1, 1, 1, 1>>,
    <<1, 1, 1, 1, 1, 1, 1, 1, 1, 1, 1, 1, 1, 1, 1, 2, 2, 2, 2, 3, 3, 3, 3, 3, 3, 3, 3, 4, 4, 4, 5, 6, 50000, 6, 5, 4, 4, 4, 3, 3, 3, 3, 3, 3, 3, 3, 2, 2, 2, 2, 1, 1, 1, 1, 1, 1, 1, 1, 1, 1, 1, 1, 1, 1, 1, 1, 1, 1, 1, 1, 1, 1, 1, 1, 1, 1, 1, 1, 1, 1, 1, 1, 1, 1, 1, 1, 1, 1, 1, 1, 1, 1, 1, 1, 1, 1, 1>>,
    <<1, 1, 1, 1, 1, 1, 1, 1, 1, 1, 1, 1, 1, 1, 2, 2, 2, 2, 3, 3, 3, 3, 3, 3, 3, 3, 4, 4, 4, 5, 6, 6, 50000, 6, 6, 5, 4, 4, 4, 3, 3, 3, 3, 3, 3, 3, 3, 2, 2, 2, 2, 1, 1, 1, 1, 1, 1, 1, 1, 1, 1, 1, 1, 1, 1, 1, 1, 1, 1, 1, 1, 1, 1, 1, 1, 1, 1, 1, 1, 1, 1, 1, 1, 1, 1, 1, 1, 1, 1, 1, 1, 1, 1, 1, 1, 1, 1>>,
    <<1, 1, 1, 1, 1, 1, 1, 1, 1, 1, 1, 1, 1, 2, 2, 2, 2, 3, 3, 3, 3, 3, 3, 3, 3, 3, 4, 4, 5, 5, 6, 7, 50000, 7, 6, 5, 5, 4, 4, 3, 3, 3, 3, 3, 3, 3, 3, 3, 2, 2, 2, 2, 1, 1, 1, 1, 1, 1, 1, 1, 1, 1, 1, 1, 1, 1, 1, 1, 1, 1, 1, 1, 1, 1, 1, 1, 1, 1, 1, 1, 1, 1, 1, 1, 1, 1, 1, 1, 1, 1, 1, 1, 1, 1, 1, 1, 1>>,
    <<1, 1, 1, 1, 1, 1, 1, 1, 1, 1, 1, 2, 2, 2, 2, 2, 2, 3, 3, 3, 3, 3, 3, 3, 3, 3, 4, 5, 5, 5, 7, 7, 50000, 7, 7, 5, 5, 5, 4, 3, 3, 3, 3, 3, 3, 3, 3, 3, 2, 2, 2, 2, 2, 2, 1, 1, 1, 1, 1, 1, 1, 1, 1, 1, 1, 1, 1, 1, 1, 1, 1, 1, 1, 1, 1, 1, 1, 1, 1, 1, 1, 1, 1, 1, 1, 1, 1, 1, 1, 1, 1, 1, 1, 1, 1, 1, 1>>,
    <<1, 1, 1, 1, 1, 1, 1, 1, 1, 1, 2, 2, 2, 2, 2, 2, 3, 3, 3, 3, 3, 3, 3, 3, 3, 4, 5, 5, 5, 6, 8, 9, 50000, 9, 8, 6, 5, 5, 5, 4, 3, 3, 3, 3, 3, 3, 3, 3, 3, 2, 2, 2, 2, 2, 2, 1, 1, 1, 1, 1, 1, 1, 1, 1, 1, 1, 1, 1, 1, 1, 1, 1, 1, 1, 1, 1, 1, 1, 1, 1, 1, 1, 1, 1, 1, 1, 1, 1, 1, 1, 1, 1, 1, 1, 1, 1, 1>>,
    <<1, 1, 1, 1, 1, 1, 1, 1, 1, 2, 2, 2, 2, 2, 2, 3, 3, 3, 3, 3, 3, 3, 3, 3, 3, 4, 5, 6, 6, 7, 11, 17, 50000, 17, 11, 7, 6, 6, 5, 4, 3, 3, 3, 3, 3, 3, 3, 3, 3, 3, 2, 2, 2, 2, 2, 2, 1, 1, 1, 1, 1, 1, 1, 1, 1, 1, 1, 1, 1, 1, 1, 1, 1, 1, 1, 1, 1, 1, 1, 1, 1, 1, 1, 1, 1, 1, 1, 1, 1, 1, 1, 1, 1, 1, 1, 1, 1>>,
    <<1, 1, 1, 1, 1, 1, 1, 1, 2, 2, 2, 2, 2, 2, 2, 3, 3, 3, 3, 3, 3, 3, 3, 3, 4, 6, 6, 7, 7, 8, 11, 50000, 50000, 50000, 11, 8, 7, 7, 6, 6, 4, 3, 3, 3, 3, 3, 3, 3, 3, 3, 2, 2, 2, 2, 2, 2, 2, 1, 1, 1, 1, 1, 1, 1, 1, 1, 1, 1, 1, 1, 1, 1, 1, 1, 1, 1, 1, 1, 1, 1, 1, 1, 1, 1, 1, 1, 1, 1, 1, 1, 1, 1, 1, 1, 1, 1, 1>>,
    <<1, 1, 1, 1, 1, 1, 1, 1, 2, 2, 2, 2, 2, 2, 3, 3, 3, 3, 3, 3, 3, 3, 3, 3, 4, 7, 14, 11, 9, 13, 19, 84, 50000, 84, 19, 13, 9, 11, 14, 7, 4, 3, 3, 3, 3, 3, 3, 3, 3, 3, 3, 2, 2, 2, 2, 2, 2, 1, 1, 1, 1, 1, 1, 1, 1, 1, 1, 1, 1, 1, 1, 1, 1, 1, 1, 1, 1, 1, 1, 1, 1, 1, 1, 1, 1, 1, 1, 1, 1, 1, 1, 1, 1, 1, 1, 1, 1>>,
    <<1, 1, 1, 1, 1, 1, 1, 2, 2, 2, 2, 2, 2, 2, 3, 3, 3, 3, 3, 3, 3, 3, 3, 4, 5, 6, 8, 19, 24, 96, 50000, 50000, 50000, 50000, 50000, 96, 24, 19, 8, 6, 5, 4, 3, 3, 3, 3, 3, 3, 3, 3, 3, 2, 2, 2, 2, 2, 2, 2, 1, 1, 1, 1, 1, 1, 1, 1, 1, 1, 1, 1, 1, 1, 1, 1, 1, 1, 1, 1, 1, 1, 1, 1, 1, 1, 1, 1, 1, 1, 1, 1, 1, 1, 1, 1, 1, 1, 1>>,
    <<1, 1, 1, 1, 1, 1, 2, 2, 2, 2, 2, 2, 2, 3, 3, 3, 3, 3, 3, 3, 3, 3, 4, 4, 5, 6, 7, 12, 50000, 50000, 50000, 50000, 50000, 50000, 50000, 50000, 50000, 12, 7, 6, 5, 4, 4, 3, 3, 3, 3, 3, 3, 3, 3, 3, 2, 2, 2, 2, 2, 2, 2, 1, 1, 1, 1, 1, 1, 1, 1, 1, 1, 1, 1, 1, 1, 1, 1, 1, 1, 1, 1, 1, 1, 1, 1, 1, 1, 1, 1, 1, 1, 1, 1, 1, 1, 1, 1, 1, 1>>,
    <<1, 1, 1, 1, 1, 2, 2, 2, 2, 2, 2, 2, 2, 3, 3, 3, 3, 3, 3, 3, 3, 4, 4, 5, 5, 5, 8, 11, 1063, 50000, 50000, 50000, 50000, 50000, 50000, 50000, 1063, 11, 8, 5, 5, 5, 4, 4, 3, 3, 3, 3, 3, 3, 3, 3, 2, 2, 2, 2, 2, 2, 2, 2, 1, 1, 1, 1, 1, 1, 1, 1, 1, 1, 1, 1, 1, 1, 1, 1, 1, 1, 1, 1, 1, 1, 1, 1, 1, 1, 1, 1, 1, 1, 1, 1, 1, 1, 1, 1, 1>>,
    <<1, 1, 1, 1, 1, 2, 2, 2, 2, 2, 2, 2, 2, 3, 3, 3, 3, 3, 3, 3, 3, 4, 4, 5, 5, 6, 8, 20, 50000, 50000, 50000, 50000, 50000, 50000, 50000, 50000, 50000, 20, 8, 6, 5, 5, 4, 4, 3, 3, 3, 3, 3, 3, 3, 3, 2, 2, 2, 2, 2, 2, 2, 2, 1, 1, 1, 1, 1, 1, 1, 1, 1, 1, 1, 1, 1, 1, 1, 1, 1, 1, 1, 1, 1, 1, 1, 1, 1, 1, 1, 1, 1, 1, 1, 1, 1, 1, 1, 1, 1>>,
    <<1, 1, 1, 1, 2, 2, 2, 2, 2, 2, 2, 2, 3, 3, 3, 3, 3, 3, 3, 3, 4, 4, 4, 5, 5, 6, 7, 15, 35, 50000, 50000, 50000, 50000, 50000, 50000, 50000, 35, 15, 7, 6, 5, 5, 4, 4, 4, 3, 3, 3, 3, 3, 3, 3, 3, 2, 2, 2, 2, 2, 2, 2, 2, 1, 1, 1, 1, 1, 1, 1, 1, 1, 1, 1, 1, 1, 1, 1, 1, 1, 1, 1, 1, 1, 1, 1, 1, 1, 1, 1, 1, 1, 1, 1, 1, 1, 1, 1, 1>>,
    <<1, 1, 1, 1, 2, 2, 2, 2, 2, 2, 2, 2, 3, 3, 3, 3, 3, 3, 3, 4, 4, 4, 5, 5, 5, 6, 7, 9, 24, 50000, 50000, 50000, 50000, 50000, 50000, 50000, 24, 9, 7, 6, 5, 5, 5, 4, 4, 4, 3, 3, 3, 3, 3, 3, 3, 2, 2, 2, 2, 2, 2, 2, 2, 1, 1, 1, 1, 1, 1, 1, 1, 1, 1, 1, 1, 1, 1, 1, 1, 1, 1, 1, 1, 1, 1, 1, 1, 1, 1, 1, 1, 1, 1, 1, 1, 1, 1, 1, 1>>,
    <<1, 1, 1, 2, 2, 2, 2, 2, 2, 2, 2, 2, 3, 3, 3, 3, 3, 3, 4, 4, 4, 4, 5, 5, 6, 7, 8, 9, 11, 50, 50000, 50000, 50000, 50000, 50000, 50, 11, 9, 8, 7, 6, 5, 5, 4, 4, 4, 4, 3, 3, 3, 3, 3, 3, 2, 2, 2, 2, 2, 2, 2, 2, 2, 1, 1, 1, 1, 1, 1, 1, 1, 1, 1, 1, 1, 1, 1, 1, 1, 1, 1, 1, 1, 1, 1, 1, 1, 1, 1, 1, 1, 1, 1, 1, 1, 1, 1, 1>>,
    <<1, 1, 1, 2, 2, 2, 2, 2, 2, 2, 2, 2, 3, 3, 3, 3, 3, 4, 4, 4, 4, 5, 5, 6, 6, 8, 8, 10, 13, 17, 26, 51, 50000, 51, 26, 17, 13, 10, 8, 8, 6, 6, 5, 5, 4, 4, 4, 4, 3, 3, 3, 3, 3, 2, 2, 2, 2, 2, 2, 2, 2, 2, 1, 1, 1, 1, 1, 1, 1, 1, 1, 1, 1, 1, 1, 1, 1, 1, 1, 1, 1, 1, 1, 1, 1, 1, 1, 1, 1, 1, 1, 1, 1, 1, 1, 1, 1>>,
    <<1, 1, 2, 2, 2, 2, 2, 2, 2, 2, 2, 3, 3, 3, 3, 3, 3, 4, 4, 4, 4, 5, 6, 7, 9, 16, 21, 84, 50000, 50000, 50000, 50000, 50000, 50000, 50000, 50000, 50000, 84, 21, 16, 9, 7, 6, 5, 4, 4, 4, 4, 3, 3, 3, 3, 3, 3, 2, 2, 2, 2, 2, 2, 2, 2, 2, 1, 1, 1, 1, 1, 1, 1, 1, 1, 1, 1, 1, 1, 1, 1, 1, 1, 1, 1, 1, 1, 1, 1, 1, 1, 1, 1, 1, 1, 1, 1, 1, 1, 1>>,
    <<1, 1, 2, 2, 2, 2, 2, 2, 2, 2, 2, 3, 3, 3, 3, 3, 4, 4, 4, 4, 5, 12, 9, 9, 12, 50000, 50000, 50000, 50000, 50000, 50000, 50000, 50000, 50000, 50000, 50000, 50000, 50000, 50000, 50000, 12, 9, 9, 12, 5, 4, 4, 4, 4, 3, 3, 3, 3, 3, 2, 2, 2, 2, 2, 2, 2, 2, 2, 1, 1, 1, 1, 1, 1, 1, 1, 1, 1, 1, 1, 1, 1, 1, 1, 1, 1, 1, 1, 1, 1, 1, 1, 1, 1, 1, 1, 1, 1, 1, 1, 1, 1>>,
    <<1, 1, 2, 2, 2, 2, 2, 2, 2, 2, 2, 3, 3, 3, 3, 4, 4, 4, 4, 5, 6, 9, 22, 32, 18, 50000, 50000, 50000, 50000, 50000, 50000, 50000, 50000, 50000, 50000, 50000, 50000, 50000, 50000, 50000, 18, 32, 22, 9, 6, 5, 4, 4, 4, 4, 3, 3, 3, 3, 2, 2, 2, 2, 2, 2, 2, 2, 2, 1, 1, 1, 1, 1, 1, 1, 1, 1, 1, 1, 1, 1, 1, 1, 1, 1, 1, 1, 1, 1, 1, 1, 1, 1, 1, 1, 1, 1, 1, 1, 1, 1, 1>>,
    <<1, 1, 2, 2, 2, 2, 2, 2, 2, 2, 2, 3, 3, 3, 3, 4, 4, 4, 4, 5, 6, 10, 20, 50000, 50000, 50000, 50000, 50000, 50000, 50000, 50000, 50000, 50000, 50000, 50000, 50000, 50000, 50000, 50000, 50000, 50000, 50000, 20, 10, 6, 5, 4, 4, 4, 4, 3, 3, 3, 3, 2, 2, 2, 2, 2, 2, 2, 2, 2, 1, 1, 1, 1, 1, 1, 1, 1, 1, 1, 1, 1, 1, 1, 1, 1, 1, 1, 1, 1, 1, 1, 1, 1, 1, 1, 1, 1, 1, 1, 1, 1, 1, 1>>,
    <<1, 2, 2, 2, 2, 2, 2, 2, 2, 2, 2, 3, 3, 3, 4, 4, 4, 4, 5, 6, 6, 8, 12, 234, 50000, 50000, 50000, 50000, 50000, 50000, 50000, 50000, 50000, 50000, 50000, 50000, 50000, 50000, 50000, 50000, 50000, 234, 12, 8, 6, 6, 5, 4, 4, 4, 4, 3, 3, 3, 2, 2, 2, 2, 2, 2, 2, 2, 2, 2, 1, 1, 1, 1, 1, 1, 1, 1, 1, 1, 1, 1, 1, 1, 1, 1, 1, 1, 1, 1, 1, 1, 1, 1, 1, 1, 1, 1, 1, 1, 1, 1, 1>>,
    <<1, 2, 2, 2, 2, 2, 2, 2, 2, 2, 2, 3, 3, 3, 4, 4, 5, 5, 5, 6, 7, 10, 154, 50000, 50000, 50000, 50000, 50000, 50000, 50000, 50000, 50000, 50000, 50000, 50000, 50000, 50000, 50000, 50000, 50000, 50000, 50000, 154, 10, 7, 6, 5, 5, 5, 4, 4, 3, 3, 3, 2, 2, 2, 2, 2, 2, 2, 2, 2, 2, 1, 1, 1, 1, 1, 1, 1, 1, 1, 1, 1, 1, 1, 1, 1, 1, 1, 1, 1, 1, 1, 1, 1, 1, 1, 1, 1, 1, 1, 1, 1, 1, 1>>,
    <<1, 2, 2, 2, 2, 2, 2, 2, 2, 2, 2, 3, 3, 3, 4, 5, 5, 5, 6, 8, 8, 10, 308, 50000, 50000, 50000, 50000, 50000, 50000, 50000, 50000, 50000, 50000, 50000, 50000, 50000, 50000, 50000, 50000, 50000, 50000, 50000, 308, 10, 8, 8, 6, 5, 5, 5, 4, 3, 3, 3, 2, 2, 2, 2, 2, 2, 2, 2, 2, 2, 1, 1, 1, 1, 1, 1, 1, 1, 1, 1, 1, 1, 1, 1, 1, 1, 1, 1, 1, 1, 1, 1, 1, 1, 1, 1, 1, 1, 1, 1, 1, 1, 1>>,
    <<1, 2, 2, 2, 2, 2, 2, 2, 2, 2, 2, 2, 3, 3, 5, 6, 6, 7, 13, 17, 22, 14, 50000, 50000, 50000, 50000, 50000, 50000, 50000, 50000, 50000, 50000, 50000, 50000, 50000, 50000, 50000, 50000, 50000, 50000, 50000, 50000, 50000, 14, 22, 17, 13, 7, 6, 6, 5, 3, 3, 2, 2, 2, 2, 2, 2, 2, 2, 2, 2, 2, 1, 1, 1, 1, 1, 1, 1, 1, 1, 1, 1, 1, 1, 1, 1, 1, 1, 1, 1, 1, 1, 1, 1, 1, 1, 1, 1, 1, 1, 1, 1, 1, 1>>,
    <<1, 2, 2, 2, 2, 2, 2, 2, 2, 2, 2, 2, 3, 3, 6, 9, 8, 8, 11, 50000, 50000, 50000, 50000, 50000, 50000, 50000, 50000, 50000, 50000, 50000, 50000, 50000, 50000, 50000, 50000, 50000, 50000, 50000, 50000, 50000, 50000, 50000, 50000, 50000, 50000, 50000, 11, 8, 8, 9, 6, 3, 3, 2, 2, 2, 2, 2, 2, 2, 2, 2, 2, 2, 1, 1, 1, 1, 1, 1, 1, 1, 1, 1, 1, 1, 1, 1, 1, 1, 1, 1, 1, 1, 1, 1, 1, 1, 1, 1, 1, 1, 1, 1, 1, 1, 1>>,
    <<1, 2, 2, 2, 2, 2, 2, 2, 2, 2, 2, 2, 3, 3, 5, 7, 13, 13, 50000, 50000, 50000, 50000, 50000, 50000, 50000, 50000, 50000, 50000, 50000, 50000, 50000, 50000, 50000, 50000, 50000, 50000, 50000, 50000, 50000, 50000, 50000, 50000, 50000, 50000, 50000, 50000, 50000, 13, 13, 7, 5, 3, 3, 2, 2, 2, 2, 2, 2, 2, 2, 2, 2, 2, 1, 1, 1, 1, 1, 1, 1, 1, 1, 1, 1, 1, 1, 1, 1, 1, 1, 1, 1, 1, 1, 1, 1, 1, 1, 1, 1, 1, 1, 1, 1, 1, 1>>,
    <<1, 2, 2, 2, 2, 2, 2, 2, 2, 2, 2, 2, 3, 3, 4, 6, 20, 10, 16, 50000, 50000, 50000, 50000, 50000, 50000, 50000, 50000, 50000, 50000, 50000, 50000, 50000, 50000, 50000, 50000, 50000, 50000, 50000, 50000, 50000, 50000, 50000, 50000, 50000, 50000, 50000, 16, 10, 20, 6, 4, 3, 3, 2, 2, 2, 2, 2, 2, 2, 2, 2, 2, 2, 1, 1, 1, 1, 1, 1, 1, 1, 1, 1, 1, 1, 1, 1, 1, 1, 1, 1, 1, 1, 1, 1, 1, 1, 1, 1, 1, 1, 1, 1, 1, 1, 1>>,
    <<2, 2, 2, 2, 2, 2, 2, 2, 2, 2, 2, 2, 2, 3, 4, 5, 50000, 7, 9, 40, 34, 13, 50000, 50000, 50000, 50000, 50000, 50000, 50000, 50000, 50000, 50000, 50000, 50000, 50000, 50000, 50000, 50000, 50000, 50000, 50000, 50000, 50000, 13, 34, 40, 9, 7, 50000, 5, 4, 3, 2, 2, 2, 2, 2, 2, 2, 2, 2, 2, 2, 2, 2, 1, 1, 1, 1, 1, 1, 1, 1, 1, 1, 1, 1, 1, 1, 1, 1, 1, 1, 1, 1, 1, 1, 1, 1, 1, 1, 1, 1, 1, 1, 1, 1>>,
    <<1, 2, 2, 2, 2, 2, 2, 2, 2, 2, 2, 2, 2, 3, 4, 4, 4, 5, 6, 7, 8, 10, 107, 50000, 50000, 50000, 50000, 50000, 50000, 50000, 50000, 50000, 50000, 50000, 50000, 50000, 50000, 50000, 50000, 50000, 50000, 50000, 107, 10, 8, 7, 6, 5, 4, 4, 4, 3, 2, 2, 2, 2, 2, 2, 2, 2, 2, 2, 2, 2, 1, 1, 1, 1, 1, 1, 1, 1, 1, 1, 1, 1, 1, 1, 1, 1, 1, 1, 1, 1, 1, 1, 1, 1, 1, 1, 1, 1, 1, 1, 1, 1, 1>>,
    <<1, 2, 2, 2, 2, 2, 2, 2, 2, 2, 2, 2, 2, 3, 3, 4, 4, 4, 5, 5, 7, 11, 50000, 50000, 50000, 50000, 50000, 50000, 50000, 50000, 50000, 50000, 50000, 50000, 50000, 50000, 50000, 50000, 50000, 50000, 50000, 50000, 50000, 11, 7, 5, 5, 4, 4, 4, 3, 3, 2, 2, 2, 2, 2, 2, 2, 2, 2, 2, 2, 2, 1, 1, 1, 1, 1, 1, 1, 1, 1, 1, 1, 1, 1, 1, 1, 1, 1, 1, 1, 1, 1, 1, 1, 1, 1, 1, 1, 1, 1, 1, 1, 1, 1>>,
    <<1, 2, 2, 2, 2, 2, 2, 2, 2, 2, 2, 2, 2, 2, 3, 4, 4, 4, 5, 5, 6, 7, 10, 29, 50000, 50000, 50000, 50000, 50000, 50000, 50000, 50000, 50000, 50000, 50000, 50000, 50000, 50000, 50000, 50000, 50000, 29, 10, 7, 6, 5, 5, 4, 4, 4, 3, 2, 2, 2, 2, 2, 2, 2, 2, 2, 2, 2, 2, 2, 1, 1, 1, 1, 1, 1, 1, 1, 1, 1, 1, 1, 1, 1, 1, 1, 1, 1, 1, 1, 1, 1, 1, 1, 1, 1, 1, 1, 1, 1, 1, 1, 1>>,
    <<1, 2, 2, 2, 2, 2, 2, 2, 2, 2, 2, 2, 2, 2, 3, 3, 4, 4, 4, 5, 5, 6, 17, 5261, 50000, 50000, 50000, 50000, 50000, 50000, 50000, 50000, 50000, 50000, 50000, 50000, 50000, 50000, 50000, 50000, 50000, 5261, 17, 6, 5, 5, 4, 4, 4, 3, 3, 2, 2, 2, 2, 2, 2, 2, 2, 2, 2, 2, 2, 2, 1, 1, 1, 1, 1, 1, 1, 1, 1, 1, 1, 1, 1, 1, 1, 1, 1, 1, 1, 1, 1, 1, 1, 1, 1, 1, 1, 1, 1, 1, 1, 1, 1>>,
    <<1, 2, 2, 2, 2, 2, 2, 2, 2, 2, 2, 2, 2, 2, 2, 3, 3, 4, 4, 4, 5, 7, 10, 103, 50000, 64, 50000, 50000, 50000, 50000, 50000, 50000, 11, 50000, 50000, 50000, 50000, 50000, 50000, 64, 50000, 103, 10, 7, 5, 4, 4, 4, 3, 3, 2, 2, 2, 2, 2, 2, 2, 2, 2, 2, 2, 2, 2, 2, 1, 1, 1, 1, 1, 1, 1, 1, 1, 1, 1, 1, 1, 1, 1, 1, 1, 1, 1, 1, 1, 1, 1, 1, 1, 1, 1, 1, 1, 1, 1, 1, 1>>,
    <<1, 2, 2, 2, 2, 2, 2, 2, 2, 2, 2, 2, 2, 2, 2, 3, 3, 3, 4, 4, 4, 9, 11, 13, 9, 9, 17, 361, 50000, 619, 17, 8, 7, 8, 17, 619, 50000, 361, 17, 9, 9, 13, 11, 9, 4, 4, 4, 3, 3, 3, 2, 2, 2, 2, 2, 2, 2, 2, 2, 2, 2, 2, 2, 2, 1, 1, 1, 1, 1, 1, 1, 1, 1, 1, 1, 1, 1, 1, 1, 1, 1, 1, 1, 1, 1, 1, 1, 1, 1, 1, 1, 1, 1, 1, 1, 1, 1>>,
    <<1, 2, 2, 2, 2, 2, 2, 2, 2, 2, 2, 2, 2, 2, 2, 2, 3, 3, 3, 3, 4, 4, 5, 6, 6, 7, 38, 11, 13, 8, 6, 6, 6, 6, 6, 8, 13, 11, 38, 7, 6, 6, 5, 4, 4, 3, 3, 3, 3, 2, 2, 2, 2, 2, 2, 2, 2, 2, 2, 2, 2, 2, 2, 2, 1, 1, 1, 1, 1, 1, 1, 1, 1, 1, 1, 1, 1, 1, 1, 1, 1, 1, 1, 1, 1, 1, 1, 1, 1, 1, 1, 1, 1, 1, 1, 1, 1>>,
    <<1, 1, 2, 2, 2, 2, 2, 2, 2, 2, 2, 2, 2, 2, 2, 2, 2, 3, 3, 3, 3, 4, 4, 5, 5, 5, 5, 6, 5, 5, 5, 5, 5, 5, 5, 5, 5, 6, 5, 5, 5, 5, 4, 4, 3, 3, 3, 3, 2, 2, 2, 2, 2, 2, 2, 2, 2, 2, 2, 2, 2, 2, 2, 1, 1, 1, 1, 1, 1, 1, 1, 1, 1, 1, 1, 1, 1, 1, 1, 1, 1, 1, 1, 1, 1, 1, 1, 1, 1, 1, 1, 1, 1, 1, 1, 1, 1>>,
    <<1, 1, 2, 2, 2, 2, 2, 2, 2, 2, 2, 2, 2, 2, 2, 2, 2, 3, 3, 3, 3, 3, 3, 4, 4, 4, 4, 4, 4, 4, 4, 4, 4, 4, 4, 4, 4, 4, 4, 4, 4, 4, 3, 3, 3, 3, 3, 3, 2, 2, 2, 2, 2, 2, 2, 2, 2, 2, 2, 2, 2, 2, 2, 1, 1, 1, 1, 1, 1, 1, 1, 1, 1, 1, 1, 1, 1, 1, 1, 1, 1, 1, 1, 1, 1, 1, 1, 1, 1, 1, 1, 1, 1, 1, 1, 1, 1>>,
    <<1, 1, 2, 2, 2, 2, 2, 2, 2, 2, 2, 2, 2, 2, 2, 2, 2, 2, 3, 3, 3, 3, 3, 3, 3, 3, 4, 4, 4, 4, 4, 4, 4, 4, 4, 4, 4, 4, 4, 3, 3, 3, 3, 3, 3, 3, 3, 2, 2, 2, 2, 2, 2, 2, 2, 2, 2, 2, 2, 2, 2, 2, 2, 1, 1, 1, 1, 1, 1, 1, 1, 1, 1, 1, 1, 1, 1, 1, 1, 1, 1, 1, 1, 1, 1, 1, 1, 1, 1, 1, 1, 1, 1, 1, 1, 1, 1>>,
    <<1, 1, 2, 2, 2, 2, 2, 2, 2, 2, 2, 2, 2, 2, 2, 2, 2, 2, 2, 3, 3, 3, 3, 3, 3, 3, 3, 3, 3, 3, 3, 3, 3, 3, 3, 3, 3, 3, 3, 3, 3, 3, 3, 3, 3, 3, 2, 2, 2, 2, 2, 2, 2, 2, 2, 2, 2, 2, 2, 2, 2, 2, 2, 1, 1, 1, 1, 1, 1, 1, 1, 1, 1, 1, 1, 1, 1, 1, 1, 1, 1, 1, 1, 1, 1, 1, 1, 1, 1, 1, 1, 1, 1, 1, 1, 1, 1>>,
    <<1, 1, 1, 2, 2, 2, 2, 2, 2, 2, 2, 2, 2, 2, 2, 2, 2, 2, 2, 2, 2, 3, 3, 3, 3, 3, 3, 3, 3, 3, 3, 3, 3, 3, 3, 3, 3, 3, 3, 3, 3, 3, 3, 3, 2, 2, 2, 2, 2, 2, 2, 2, 2, 2, 2, 2, 2, 2, 2, 2, 2, 2, 1, 1, 1, 1, 1, 1, 1, 1, 1, 1, 1, 1, 1, 1, 1, 1, 1, 1, 1, 1, 1, 1, 1, 1, 1, 1, 1, 1, 1, 1, 1, 1, 1, 1, 1>>,
    <<1, 1, 1, 2, 2, 2, 2, 2, 2, 2, 2, 2, 2, 2, 2, 2, 2, 2, 2, 2, 2, 2, 3, 3, 3, 3, 3, 3, 3, 3, 3, 3, 3, 3, 3, 3, 3, 3, 3, 3, 3, 3, 3, 2, 2, 2, 2, 2, 2, 2, 2, 2, 2, 2, 2, 2, 2, 2, 2, 2, 2, 2, 1, 1, 1, 1, 1, 1, 1, 1, 1, 1, 1, 1, 1, 1, 1, 1, 1, 1, 1, 1, 1, 1, 1, 1, 1, 1, 1, 1, 1, 1, 1, 1, 1, 1, 1>>,
    <<1, 1, 1, 1, 2, 2, 2, 2, 2, 2, 2, 2, 2, 2, 2, 2, 2, 2, 2, 2, 2, 2, 2, 2, 3, 3, 3, 3, 3, 3, 3, 3, 3, 3, 3, 3, 3, 3, 3, 3, 3, 2, 2, 2, 2, 2, 2, 2, 2, 2, 2, 2, 2, 2, 2, 2, 2, 2, 2, 2, 2, 1, 1, 1, 1, 1, 1, 1, 1, 1, 1, 1, 1, 1, 1, 1, 1, 1, 1, 1, 1, 1, 1, 1, 1, 1, 1, 1, 1, 1, 1, 1, 1, 1, 1, 1, 1>>,
    <<1, 1, 1, 1, 2, 2, 2, 2, 2, 2, 2, 2, 2, 2, 2, 2, 2, 2, 2, 2, 2, 2, 2, 2, 2, 2, 3, 3, 3, 3, 3, 3, 3, 3, 3, 3, 3, 3, 3, 2, 2, 2, 2, 2, 2, 2, 2, 2, 2, 2, 2, 2, 2, 2, 2, 2, 2, 2, 2, 2, 2, 1, 1, 1, 1, 1, 1, 1, 1, 1, 1, 1, 1, 1, 1, 1, 1, 1, 1, 1, 1, 1, 1, 1, 1, 1, 1, 1, 1, 1, 1, 1, 1, 1, 1, 1, 1>>,
    <<1, 1, 1, 1, 1, 2, 2, 2, 2, 2, 2, 2, 2, 2, 2, 2, 2, 2, 2, 2, 2, 2, 2, 2, 2, 2, 2, 2, 2, 2, 2, 2, 3, 2, 2, 2, 2, 2, 2, 2, 2, 2, 2, 2, 2, 2, 2, 2, 2, 2, 2, 2, 2, 2, 2, 2, 2, 2, 2, 2, 1, 1, 1, 1, 1, 1, 1, 1, 1, 1, 1, 1, 1, 1, 1, 1, 1, 1, 1, 1, 1, 1, 1, 1, 1, 1, 1, 1, 1, 1, 1, 1, 1, 1, 1, 1, 1>>,
    <<1, 1, 1, 1, 1, 2, 2, 2, 2, 2, 2, 2, 2, 2, 2, 2, 2, 2, 2, 2, 2, 2, 2, 2, 2, 2, 2, 2, 2, 2, 2, 2, 2, 2, 2, 2, 2, 2, 2, 2, 2, 2, 2, 2, 2, 2, 2, 2, 2, 2, 2, 2, 2, 2, 2, 2, 2, 2, 2, 2, 1, 1, 1, 1, 1, 1, 1, 1, 1, 1, 1, 1, 1, 1, 1, 1, 1, 1, 1, 1, 1, 1, 1, 1, 1, 1, 1, 1, 1, 1, 1, 1, 1, 1, 1, 1, 1>>,
    <<1, 1, 1, 1, 1, 1, 2, 2, 2, 2, 2, 2, 2, 2, 2, 2, 2, 2, 2, 2, 2, 2, 2, 2, 2, 2, 2, 2, 2, 2, 2, 2, 2, 2, 2, 2, 2, 2, 2, 2, 2, 2, 2, 2, 2, 2, 2, 2, 2, 2, 2, 2, 2, 2, 2, 2, 2, 2, 2, 1, 1, 1, 1, 1, 1, 1, 1, 1, 1, 1, 1, 1, 1, 1, 1, 1, 1, 1, 1, 1, 1, 1, 1, 1, 1, 1, 1, 1, 1, 1, 1, 1, 1, 1, 1, 1, 1>>,
    <<1, 1, 1, 1, 1, 1, 1, 2, 2, 2, 2, 2, 2, 2, 2, 2, 2, 2, 2, 2, 2, 2, 2, 2, 2, 2, 2, 2, 2, 2, 2, 2, 2, 2, 2, 2, 2, 2, 2, 2, 2, 2, 2, 2, 2, 2, 2, 2, 2, 2, 2, 2, 2, 2, 2, 2, 2, 2, 1, 1, 1, 1, 1, 1, 1, 1, 1, 1, 1, 1, 1, 1, 1, 1, 1, 1, 1, 1, 1, 1, 1, 1, 1, 1, 1, 1, 1, 1, 1, 1, 1, 1, 1, 1, 1, 1, 1>>,
    <<1, 1, 1, 1, 1, 1, 1, 1, 2, 2, 2, 2, 2, 2, 2, 2, 2, 2, 2, 2, 2, 2, 2, 2, 2, 2, 2, 2, 2, 2, 2, 2, 2, 2, 2, 2, 2, 2, 2, 2, 2, 2, 2, 2, 2, 2, 2, 2, 2, 2, 2, 2, 2, 2, 2, 2, 2, 1, 1, 1, 1, 1, 1, 1, 1, 1, 1, 1, 1, 1, 1, 1, 1, 1, 1, 1, 1, 1, 1, 1, 1, 1, 1, 1, 1, 1, 1, 1, 1, 1, 1, 1, 1, 1, 1, 1, 1>>,
    <<1, 1, 1, 1, 1, 1, 1, 1, 2, 2, 2, 2, 2, 2, 2, 2, 2, 2, 2, 2, 2, 2, 2, 2, 2, 2, 2, 2, 2, 2, 2, 2, 2, 2, 2, 2, 2, 2, 2, 2, 2, 2, 2, 2, 2, 2, 2, 2, 2, 2, 2, 2, 2, 2, 2, 2, 2, 1, 1, 1, 1, 1, 1, 1, 1, 1, 1, 1, 1, 1, 1, 1, 1, 1, 1, 1, 1, 1, 1, 1, 1, 1, 1, 1, 1, 1, 1, 1, 1, 1, 1, 1, 1, 1, 1, 1, 1>>,
    <<1, 1, 1, 1, 1, 1, 1, 1, 1, 2, 2, 2, 2, 2, 2, 2, 2, 2, 2, 2, 2, 2, 2, 2, 2, 2, 2, 2, 2, 2, 2, 2, 2, 2, 2, 2, 2, 2, 2, 2, 2, 2, 2, 2, 2, 2, 2, 2, 2, 2, 2, 2, 2, 2, 2, 2, 1, 1, 1, 1, 1, 1, 1, 1, 1, 1, 1, 1, 1, 1, 1, 1, 1, 1, 1, 1, 1, 1, 1, 1, 1, 1, 1, 1, 1, 1, 1, 1, 1, 1, 1, 1, 1, 1, 1, 1, 1>>,
    <<1, 1, 1, 1, 1, 1, 1, 1, 1, 1, 2, 2, 2, 2, 2, 2, 2, 2, 2, 2, 2, 2, 2, 2, 2, 2, 2, 2, 2, 2, 2, 2, 2, 2, 2, 2, 2, 2, 2, 2, 2, 2, 2, 2, 2, 2, 2, 2, 2, 2, 2, 2, 2, 2, 2, 1, 1, 1, 1, 1, 1, 1, 1, 1, 1, 1, 1, 1, 1, 1, 1, 1, 1, 1, 1, 1, 1, 1, 1, 1, 1, 1, 1, 1, 1, 1, 1, 1, 1, 1, 1, 1, 1, 1, 1, 1, 1>>,
    <<1, 1, 1, 1, 1, 1, 1, 1, 1, 1, 1, 2, 2, 2, 2, 2, 2, 2, 2, 2, 2, 2, 2, 2, 2, 2, 2, 2, 2, 2, 2, 2, 2, 2, 2, 2, 2, 2, 2, 2, 2, 2, 2, 2, 2, 2, 2, 2, 2, 2, 2, 2, 2, 2, 1, 1, 1, 1, 1, 1, 1, 1, 1, 1, 1, 1, 1, 1, 1, 1, 1, 1, 1, 1, 1, 1, 1, 1, 1, 1, 1, 1, 1, 1, 1, 1, 1, 1, 1, 1, 1, 1, 1, 1, 1, 1, 1>>,
    <<1, 1, 1, 1, 1, 1, 1, 1, 1, 1, 1, 1, 1, 2, 2, 2, 2, 2, 2, 2, 2, 2, 2, 2, 2, 2, 2, 2, 2, 2, 2, 2, 2, 2, 2, 2, 2, 2, 2, 2, 2, 2, 2, 2, 2, 2, 2, 2, 2, 2, 2, 2, 1, 1, 1, 1, 1, 1, 1, 1, 1, 1, 1, 1, 1, 1, 1, 1, 1, 1, 1, 1, 1, 1, 1, 1, 1, 1, 1, 1, 1, 1, 1, 1, 1, 1, 1, 1, 1, 1, 1, 1, 1, 1, 1, 1, 1>>,
    <<1, 1, 1, 1, 1, 1, 1, 1, 1, 1, 1, 1, 1, 1, 2, 2, 2, 2, 2, 2, 2, 2, 2, 2, 2, 2, 2, 2, 2, 2, 2, 2, 2, 2, 2, 2, 2, 2, 2, 2, 2, 2, 2, 2, 2, 2, 2, 2, 2, 2, 2, 1, 1, 1, 1, 1, 1, 1, 1, 1, 1, 1, 1, 1, 1, 1, 1, 1, 1, 1, 1, 1, 1, 1, 1, 1, 1, 1, 1, 1, 1, 1, 1, 1, 1, 1, 1, 1, 1, 1, 1, 1, 1, 1, 1, 1, 1>>,
    <<1, 1, 1, 1, 1, 1, 1, 1, 1, 1, 1, 1, 1, 1, 1, 2, 2, 2, 2, 2, 2, 2, 2, 2, 2, 2, 2, 2, 2, 2, 2, 2, 2, 2, 2, 2, 2, 2, 2, 2, 2, 2, 2, 2, 2, 2, 2, 2, 2, 2, 1, 1, 1, 1, 1, 1, 1, 1, 1, 1, 1, 1, 1, 1, 1, 1, 1, 1, 1, 1, 1, 1, 1, 1, 1, 1, 1, 1, 1, 1, 1, 1, 1, 1, 1, 1, 1, 1, 1, 1, 1, 1, 1, 1, 1, 1, 1>>,
    <<1, 1, 1, 1, 1, 1, 1, 1, 1, 1, 1, 1, 1, 1, 1, 1, 1, 2, 2, 2, 2, 2, 2, 2, 2, 2, 2, 2, 2, 2, 2, 2, 2, 2, 2, 2, 2, 2, 2, 2, 2, 2, 2, 2, 2, 2, 2, 2, 1, 1, 1, 1, 1, 1, 1, 1, 1, 1, 1, 1, 1, 1, 1, 1, 1, 1, 1, 1, 1, 1, 1, 1, 1, 1, 1, 1, 1, 1, 1, 1, 1, 1, 1, 1, 1, 1, 1, 1, 1, 1, 1, 1, 1, 1, 1, 1, 1>>,
    <<1, 1, 1, 1, 1, 1, 1, 1, 1, 1, 1, 1, 1, 1, 1, 1, 1, 1, 1, 2, 2, 2, 2, 2, 2, 2, 2, 2, 2, 2, 2, 2, 2, 2, 2, 2, 2, 2, 2, 2, 2, 2, 2, 2, 2, 2, 1, 1, 1, 1, 1, 1, 1, 1, 1, 1, 1, 1, 1, 1, 1, 1, 1, 1, 1, 1, 1, 1, 1, 1, 1, 1, 1, 1, 1, 1, 1, 1, 1, 1, 1, 1, 1, 1, 1, 1, 1, 1, 1, 1, 1, 1, 1, 1, 1, 1, 1>>,
    <<1, 1, 1, 1, 1, 1, 1, 1, 1, 1, 1, 1, 1, 1, 1, 1, 1, 1, 1, 1, 1, 2, 2, 2, 2, 2, 2, 2, 2, 2, 2, 2, 2, 2, 2, 2, 2, 2, 2, 2, 2, 2, 2, 2, 1, 1, 1, 1, 1, 1, 1, 1, 1, 1, 1, 1, 1, 1, 1, 1, 1, 1, 1, 1, 1, 1, 1, 1, 1, 1, 1, 1, 1, 1, 1, 1, 1, 1, 1, 1, 1, 1, 1, 1, 1, 1, 1, 1, 1, 1, 1, 1, 1, 1, 1, 1, 1>>,
    <<1, 1, 1, 1, 1, 1, 1, 1, 1, 1, 1, 1, 1, 1, 1, 1, 1, 1, 1, 1, 1, 1, 1, 1, 1, 2, 2, 2, 2, 2, 2, 2, 2, 2, 2, 2, 2, 2, 2, 2, 1, 1, 1, 1, 1, 1, 1, 1, 1, 1, 1, 1, 1, 1, 1, 1, 1, 1, 1, 1, 1, 1, 1, 1, 1, 1, 1, 1, 1, 1, 1, 1, 1, 1, 1, 1, 1, 1, 1, 1, 1, 1, 1, 1, 1, 1, 1, 1, 1, 1, 1, 1, 1, 1, 1, 1, 1>>,
    <<1, 1, 1, 1, 1, 1, 1, 1, 1, 1, 1, 1, 1, 1, 1, 1, 1, 1, 1, 1, 1, 1, 1, 1, 1, 1, 1, 1, 1, 1, 1, 1, 2, 1, 1, 1, 1, 1, 1, 1, 1, 1, 1, 1, 1, 1, 1, 1, 1, 1, 1, 1, 1, 1, 1, 1, 1, 1, 1, 1, 1, 1, 1, 1, 1, 1, 1, 1, 1, 1, 1, 1, 1, 1, 1, 1, 1, 1, 1, 1, 1, 1, 1, 1, 1, 1, 1, 1, 1, 1, 1, 1, 1, 1, 1, 1, 1>>,
    <<1, 1, 1, 1, 1, 1, 1, 1, 1, 1, 1, 1, 1, 1, 1, 1, 1, 1, 1, 1, 1, 1, 1, 1, 1, 1, 1, 1, 1, 1, 1, 1, 1, 1, 1, 1, 1, 1, 1, 1, 1, 1, 1, 1, 1, 1, 1, 1, 1, 1, 1, 1, 1, 1, 1, 1, 1, 1, 1, 1, 1, 1, 1, 1, 1, 1, 1, 1, 1, 1, 1, 1, 1, 1, 1, 1, 1, 1, 1, 1, 1, 1, 1, 1, 1, 1, 1, 1, 1, 1, 1, 1, 1, 1, 1, 1, 1>>,
    <<1, 1, 1, 1, 1, 1, 1, 1, 1, 1, 1, 1, 1, 1, 1, 1, 1, 1, 1, 1, 1, 1, 1, 1, 1, 1, 1, 1, 1, 1, 1, 1, 1, 1, 1, 1, 1, 1, 1, 1, 1, 1, 1, 1, 1, 1, 1, 1, 1, 1, 1, 1, 1, 1, 1, 1, 1, 1, 1, 1, 1, 1, 1, 1, 1, 1, 1, 1, 1, 1, 1, 1, 1, 1, 1, 1, 1, 1, 1, 1, 1, 1, 1, 1, 1, 1, 1, 1, 1, 1, 1, 1, 1, 1, 1, 1, 1>>,
    <<1, 1, 1, 1, 1, 1, 1, 1, 1, 1, 1, 1, 1, 1, 1, 1, 1, 1, 1, 1, 1, 1, 1, 1, 1, 1, 1, 1, 1, 1, 1, 1, 1, 1, 1, 1, 1, 1, 1, 1, 1, 1, 1, 1, 1, 1, 1, 1, 1, 1, 1, 1, 1, 1, 1, 1, 1, 1, 1, 1, 1, 1, 1, 1, 1, 1, 1, 1, 1, 1, 1, 1, 1, 1, 1, 1, 1, 1, 1, 1, 1, 1, 1, 1, 1, 1, 1, 1, 1, 1, 1, 1, 1, 1, 1, 1, 1>>,
    <<1, 1, 1, 1, 1, 1, 1, 1, 1, 1, 1, 1, 1, 1, 1, 1, 1, 1, 1, 1, 1, 1, 1, 1, 1, 1, 1, 1, 1, 1, 1, 1, 1, 1, 1, 1, 1, 1, 1, 1, 1, 1, 1, 1, 1, 1, 1, 1, 1, 1, 1, 1, 1, 1, 1, 1, 1, 1, 1, 1, 1, 1, 1, 1, 1, 1, 1, 1, 1, 1, 1, 1, 1, 1, 1, 1, 1, 1, 1, 1, 1, 1, 1, 1, 1, 1, 1, 1, 1, 1, 1, 1, 1, 1, 1, 1, 1>>,
    <<1, 1, 1, 1, 1, 1, 1, 1, 1, 1, 1, 1, 1, 1, 1, 1, 1, 1, 1, 1, 1, 1, 1, 1, 1, 1, 1, 1, 1, 1, 1, 1, 1, 1, 1, 1, 1, 1, 1, 1, 1, 1, 1, 1, 1, 1, 1, 1, 1, 1, 1, 1, 1, 1, 1, 1, 1, 1, 1, 1, 1, 1, 1, 1, 1, 1, 1, 1, 1, 1, 1, 1, 1, 1, 1, 1, 1, 1, 1, 1, 1, 1, 1, 1, 1, 1, 1, 1, 1, 1, 1, 1, 1, 1, 1, 1, 1>>,
    <<1, 1, 1, 1, 1, 1, 1, 1, 1, 1, 1, 1, 1, 1, 1, 1, 1, 1, 1, 1, 1, 1, 1, 1, 1, 1, 1, 1, 1, 1, 1, 1, 1, 1, 1, 1, 1, 1, 1, 1, 1, 1, 1, 1, 1, 1, 1, 1, 1, 1, 1, 1, 1, 1, 1, 1, 1, 1, 1, 1, 1, 1, 1, 1, 1, 1, 1, 1, 1, 1, 1, 1, 1, 1, 1, 1, 1, 1, 1, 1, 1, 1, 1, 1, 1, 1, 1, 1, 1, 1, 1, 1, 1, 1, 1, 1, 1>>,
    <<1, 1, 1, 1, 1, 1, 1, 1, 1, 1, 1, 1, 1, 1, 1, 1, 1, 1, 1, 1, 1, 1, 1, 1, 1, 1, 1, 1, 1, 1, 1, 1, 1, 1, 1, 1, 1, 1, 1, 1, 1, 1, 1, 1, 1, 1, 1, 1, 1, 1, 1, 1, 1, 1, 1, 1, 1, 1, 1, 1, 1, 1, 1, 1, 1, 1, 1, 1, 1, 1, 1, 1, 1, 1, 1, 1, 1, 1, 1, 1, 1, 1, 1, 1, 1, 1, 1, 1, 1, 1, 1, 1, 1, 1, 1, 1, 1>>,
    <<1, 1, 1, 1, 1, 1, 1, 1, 1, 1, 1, 1, 1, 1, 1, 1, 1, 1, 1, 1, 1, 1, 1, 1, 1, 1, 1, 1, 1, 1, 1, 1, 1, 1, 1, 1, 1, 1, 1, 1, 1, 1, 1, 1, 1, 1, 1, 1, 1, 1, 1, 1, 1, 1, 1, 1, 1, 1, 1, 1, 1, 1, 1, 1, 1, 1, 1, 1, 1, 1, 1, 1, 1, 1, 1, 1, 1, 1, 1, 1, 1, 1, 1, 1, 1, 1, 1, 1, 1, 1, 1, 1, 1, 1, 1, 1, 1>>,
    <<1, 1, 1, 1, 1, 1, 1, 1, 1, 1, 1, 1, 1, 1, 1, 1, 1, 1, 1, 1, 1, 1, 1, 1, 1, 1, 1, 1, 1, 1, 1, 1, 1, 1, 1, 1, 1, 1, 1, 1, 1, 1, 1, 1, 1, 1, 1, 1, 1, 1, 1, 1, 1, 1, 1, 1, 1, 1, 1, 1, 1, 1, 1, 1, 1, 1, 1, 1, 1, 1, 1, 1, 1, 1, 1, 1, 1, 1, 1, 1, 1, 1, 1, 1, 1, 1, 1, 1, 1, 1, 1, 1, 1, 1, 1, 1, 1>>,
    <<1, 1, 1, 1, 1, 1, 1, 1, 1, 1, 1, 1, 1, 1, 1, 1, 1, 1, 1, 1, 1, 1, 1, 1, 1, 1, 1, 1, 1, 1, 1, 1, 1, 1, 1, 1, 1, 1, 1, 1, 1, 1, 1, 1, 1, 1, 1, 1, 1, 1, 1, 1, 1, 1, 1, 1, 1, 1, 1, 1, 1, 1, 1, 1, 1, 1, 1, 1, 1, 1, 1, 1, 1, 1, 1, 1, 1, 1, 1, 1, 1, 1, 1, 1, 1, 1, 1, 1, 1, 1, 1, 1, 1, 1, 1, 1, 1>>,
    <<1, 1, 1, 1, 1, 1, 1, 1, 1, 1, 1, 1, 1, 1, 1, 1, 1, 1, 1, 1, 1, 1, 1, 1, 1, 1, 1, 1, 1, 1, 1, 1, 1, 1, 1, 1, 1, 1, 1, 1, 1, 1, 1, 1, 1, 1, 1, 1, 1, 1, 1, 1, 1, 1, 1, 1, 1, 1, 1, 1, 1, 1, 1, 1, 1, 1, 1, 1, 1, 1, 1, 1, 1, 1, 1, 1, 1, 1, 1, 1, 1, 1, 1, 1, 1, 1, 1, 1, 1, 1, 1, 1, 1, 1, 1, 1, 1>>,
    <<1, 1, 1, 1, 1, 1, 1, 1, 1, 1, 1, 1, 1, 1, 1, 1, 1, 1, 1, 1, 1, 1, 1, 1, 1, 1, 1, 1, 1, 1, 1, 1, 1, 1, 1, 1, 1, 1, 1, 1, 1, 1, 1, 1, 1, 1, 1, 1, 1, 1, 1, 1, 1, 1, 1, 1, 1, 1, 1, 1, 1, 1, 1, 1, 1, 1, 1, 1, 1, 1, 1, 1, 1, 1, 1, 1, 1, 1, 1, 1, 1, 1, 1, 1, 1, 1, 1, 1, 1, 1, 1, 1, 1, 1, 1, 1, 1>>,
    <<1, 1, 1, 1, 1, 1, 1, 1, 1, 1, 1, 1, 1, 1, 1, 1, 1, 1, 1, 1, 1, 1, 1, 1, 1, 1, 1, 1, 1, 1, 1, 1, 1, 1, 1, 1, 1, 1, 1, 1, 1, 1, 1, 1, 1, 1, 1, 1, 1, 1, 1, 1, 1, 1, 1, 1, 1, 1, 1, 1, 1, 1, 1, 1, 1, 1, 1, 1, 1, 1, 1, 1, 1, 1, 1, 1, 1, 1, 1, 1, 1, 1, 1, 1, 1, 1, 1, 1, 1, 1, 1, 1, 1, 1, 1, 1, 1>>,
    <<1, 1, 1, 1, 1, 1, 1, 1, 1, 1, 1, 1, 1, 1, 1, 1, 1, 1, 1, 1, 1, 1, 1, 1, 1, 1, 1, 1, 1, 1, 1, 1, 1, 1, 1, 1, 1, 1, 1, 1, 1, 1, 1, 1, 1, 1, 1, 1, 1, 1, 1, 1, 1, 1, 1, 1, 1, 1, 1, 1, 1, 1, 1, 1, 1, 1, 1, 1, 1, 1, 1, 1, 1, 1, 1, 1, 1, 1, 1, 1, 1, 1, 1, 1, 1, 1, 1, 1, 1, 1, 1, 1, 1, 1, 1, 1, 1>>,
    <<1, 1, 1, 1, 1, 1, 1, 1, 1, 1, 1, 1, 1, 1, 1, 1, 1, 1, 1, 1, 1, 1, 1, 1, 1, 1, 1, 1, 1, 1, 1, 1, 1, 1, 1, 1, 1, 1, 1, 1, 1, 1, 1, 1, 1, 1, 1, 1, 1, 1, 1, 1, 1, 1, 1, 1, 1, 1, 1, 1, 1, 1, 1, 1, 1, 1, 1, 1, 1, 1, 1, 1, 1, 1, 1, 1, 1, 1, 1, 1, 1, 1, 1, 1, 1, 1, 1, 1, 1, 1, 1, 1, 1, 1, 1, 1, 1>>,
    <<1, 1, 1, 1, 1, 1, 1, 1, 1, 1, 1, 1, 1, 1, 1, 1, 1, 1, 1, 1, 1, 1, 1, 1, 1, 1, 1, 1, 1, 1, 1, 1, 1, 1, 1, 1, 1, 1, 1, 1, 1, 1, 1, 1, 1, 1, 1, 1, 1, 1, 1, 1, 1, 1, 1, 1, 1, 1, 1, 1, 1, 1, 1, 1, 1, 1, 1, 1, 1, 1, 1, 1, 1, 1, 1, 1, 1, 1, 1, 1, 1, 1, 1, 1, 1, 1, 1, 1, 1, 1, 1, 1, 1, 1, 1, 1, 1>>,
    <<1, 1, 1, 1, 1, 1, 1, 1, 1, 1, 1, 1, 1, 1, 1, 1, 1, 1, 1, 1, 1, 1, 1, 1, 1, 1, 1, 1, 1, 1, 1, 1, 1, 1, 1, 1, 1, 1, 1, 1, 1, 1, 1, 1, 1, 1, 1, 1, 1, 1, 1, 1, 1, 1, 1, 1, 1, 1, 1, 1, 1, 1, 1, 1, 1, 1, 1, 1, 1, 1, 1, 1, 1, 1, 1, 1, 1, 1, 1, 1, 1, 1, 1, 1, 1, 1, 1, 1, 1, 1, 1, 1, 1, 1, 1, 1, 1>>,
    <<1, 1, 1, 1, 1, 1, 1, 1, 1, 1, 1, 1, 1, 1, 1, 1, 1, 1, 1, 1, 1, 1, 1, 1, 1, 1, 1, 1, 1, 1, 1, 1, 1, 1, 1, 1, 1, 1, 1, 1, 1, 1, 1, 1, 1, 1, 1, 1, 1, 1, 1, 1, 1, 1, 1, 1, 1, 1, 1, 1, 1, 1, 1, 1, 1, 1, 1, 1, 1, 1, 1, 1, 1, 1, 1, 1, 1, 1, 1, 1, 1, 1, 1, 1, 1, 1, 1, 1, 1, 1, 1, 1, 1, 1, 1, 1, 1>>,
    <<1, 1, 1, 1, 1, 1, 1, 1, 1, 1, 1, 1, 1, 1, 1, 1, 1, 1, 1, 1, 1, 1, 1, 1, 1, 1, 1, 1, 1, 1, 1, 1, 1, 1, 1, 1, 1, 1, 1, 1, 1, 1, 1, 1, 1, 1, 1, 1, 1, 1, 1, 1, 1, 1, 1, 1, 1, 1, 1, 1, 1, 1, 1, 1, 1, 1, 1, 1, 1, 1, 1, 1, 1, 1, 1, 1, 1, 1, 1, 1, 1, 1, 1, 1, 1, 1, 1, 1, 1, 1, 1, 1, 1, 1, 1, 1, 1>>,
    <<1, 1, 1, 1, 1, 1, 1, 1, 1, 1, 1, 1, 1, 1, 1, 1, 1, 1, 1, 1, 1, 1, 1, 1, 1, 1, 1, 1, 1, 1, 1, 1, 1, 1, 1, 1, 1, 1, 1, 1, 1, 1, 1, 1, 1, 1, 1, 1, 1, 1, 1, 1, 1, 1, 1, 1, 1, 1, 1, 1, 1, 1, 1, 1, 1, 1, 1, 1, 1, 1, 1, 1, 1, 1, 1, 1, 1, 1, 1, 1, 1, 1, 1, 1, 1, 1, 1, 1, 1, 1, 1, 1, 1, 1, 1, 1, 1>>,
    <<1, 1, 1, 1, 1, 1, 1, 1, 1, 1, 1, 1, 1, 1, 1, 1, 1, 1, 1, 1, 1, 1, 1, 1, 1, 1, 1, 1, 1, 1, 1, 1, 1, 1, 1, 1, 1, 1, 1, 1, 1, 1, 1, 1, 1, 1, 1, 1, 1, 1, 1, 1, 1, 1, 1, 1, 1, 1, 1, 1, 1, 1, 1, 1, 1, 1, 1, 1, 1, 1, 1, 1, 1, 1, 1, 1, 1, 1, 1, 1, 1, 1, 1, 1, 1, 1, 1, 1, 1, 1, 1, 1, 1, 1, 1, 1, 1>>,
    <<1, 1, 1, 1, 1, 1, 1, 1, 1, 1, 1, 1, 1, 1, 1, 1, 1, 1, 1, 1, 1, 1, 1, 1, 1, 1, 1, 1, 1, 1, 1, 1, 1, 1, 1, 1, 1, 1, 1, 1, 1, 1, 1, 1, 1, 1, 1, 1, 1, 1, 1, 1, 1, 1, 1, 1, 1, 1, 1, 1, 1, 1, 1, 1, 1, 1, 1, 1, 1, 1, 1, 1, 1, 1, 1, 1, 1, 1, 1, 1, 1, 1, 1, 1, 1, 1, 1, 1, 1, 1, 1, 1, 1, 1, 1, 1, 1>>,
    <<1, 1, 1, 1, 1, 1, 1, 1, 1, 1, 1, 1, 1, 1, 1, 1, 1, 1, 1, 1, 1, 1, 1, 1, 1, 1, 1, 1, 1, 1, 1, 1, 1, 1, 1, 1, 1, 1, 1, 1, 1, 1, 1, 1, 1, 1, 1, 1, 1, 1, 1, 1, 1, 1, 1, 1, 1, 1, 1, 1, 1, 1, 1, 1, 1, 1, 1, 1, 1, 1, 1, 1, 1, 1, 1, 1, 1, 1, 1, 1, 1, 1, 1, 1, 1, 1, 1, 1, 1, 1, 1, 1, 1, 1, 1, 1, 1>>,
    <<1, 1, 1, 1, 1, 1, 1, 1, 1, 1, 1, 1, 1, 1, 1, 1, 1, 1, 1, 1, 1, 1, 1, 1, 1, 1, 1, 1, 1, 1, 1, 1, 1, 1, 1, 1, 1, 1, 1, 1, 1, 1, 1, 1, 1, 1, 1, 1, 1, 1, 1, 1, 1, 1, 1, 1, 1, 1, 1, 1, 1, 1, 1, 1, 1, 1, 1, 1, 1, 1, 1, 1, 1, 1, 1, 1, 1, 1, 1, 1, 1, 1, 1, 1, 1, 1, 1, 1, 1, 1, 1, 1, 1, 1, 1, 1, 1>>,
    <<1, 1, 1, 1, 1, 1, 1, 1, 1, 1, 1, 1, 1, 1, 1, 1, 1, 1, 1, 1, 1, 1, 1, 1, 1, 1, 1, 1, 1, 1, 1, 1, 1, 1, 1, 1, 1, 1, 1, 1, 1, 1, 1, 1, 1, 1, 1, 1, 1, 1, 1, 1, 1, 1, 1, 1, 1, 1, 1, 1, 1, 1, 1, 1, 1, 1, 1, 1, 1, 1, 1, 1, 1, 1, 1, 1, 1, 1, 1, 1, 1, 1, 1, 1, 1, 1, 1, 1, 1, 1, 1, 1, 1, 1, 1, 1, 1>>,
    <<1, 1, 1, 1, 1, 1, 1, 1, 1, 1, 1, 1, 1, 1, 1, 1, 1, 1, 1, 1, 1, 1, 1, 1, 1, 1, 1, 1, 1, 1, 1, 1, 1, 1, 1, 1, 1, 1, 1, 1, 1, 1, 1, 1, 1, 1, 1, 1, 1, 1, 1, 1, 1, 1, 1, 1, 1, 1, 1, 1, 1, 1, 1, 1, 1, 1, 1, 1, 1, 1, 1, 1, 1, 1, 1, 1, 1, 1, 1, 1, 1, 1, 1, 1, 1, 1, 1, 1, 1, 1, 1, 1, 1, 1, 1, 1, 1>>,
    <<1, 1, 1, 1, 1, 1, 1, 1, 1, 1, 1, 1, 1, 1, 1, 1, 1, 1, 1, 1, 1, 1, 1, 1, 1, 1, 1, 1, 1, 1, 1, 1, 1, 1, 1, 1, 1, 1, 1, 1, 1, 1, 1, 1, 1, 1, 1, 1, 1, 1, 1, 1, 1, 1, 1, 1, 1, 1, 1, 1, 1, 1, 1, 1, 1, 1, 1, 1, 1, 1, 1, 1, 1, 1, 1, 1, 1, 1, 1, 1, 1, 1, 1, 1, 1, 1, 1, 1, 1, 1, 1, 1, 1, 1, 1, 1, 1>>,
    <<1, 1, 1, 1, 1, 1, 1, 1, 1, 1, 1, 1, 1, 1, 1, 1, 1, 1, 1, 1, 1, 1, 1, 1, 1, 1, 1, 1, 1, 1, 1, 1, 1, 1, 1, 1, 1, 1, 1, 1, 1, 1, 1, 1, 1, 1, 1, 1, 1, 1, 1, 1, 1, 1, 1, 1, 1, 1, 1, 1, 1, 1, 1, 1, 1, 1, 1, 1, 1, 1, 1, 1, 1, 1, 1, 1, 1, 1, 1, 1, 1, 1, 1, 1, 1, 1, 1, 1, 1, 1, 1, 1, 1, 1, 1, 1, 1>>,
    <<1, 1, 1, 1, 1, 1, 1, 1, 1, 1, 1, 1, 1, 1, 1, 1, 1, 1, 1, 1, 1, 1, 1, 1, 1, 1, 1, 1, 1, 1, 1, 1, 1, 1, 1, 1, 1, 1, 1, 1, 1, 1, 1, 1, 1, 1, 1, 1, 1, 1, 1, 1, 1, 1, 1, 1, 1, 1, 1, 1, 1, 1, 1, 1, 1, 1, 1, 1, 1, 1, 1, 1, 1, 1, 1, 1, 1, 1, 1, 1, 1, 1, 1, 1, 1, 1, 1, 1, 1, 1, 1, 1, 1, 1, 1, 1, 1>>,
    <<1, 1, 1, 1, 1, 1, 1, 1, 1, 1, 1, 1, 1, 1, 1, 1, 1, 1, 1, 1, 1, 1, 1, 1, 1, 1, 1, 1, 1, 1, 1, 1, 1, 1, 1, 1, 1, 1, 1, 1, 1, 1, 1, 1, 1, 1, 1, 1, 1, 1, 1, 1, 1, 1, 1, 1, 1, 1, 1, 1, 1, 1, 1, 1, 1, 1, 1, 1, 1, 1, 1, 1, 1, 1, 1, 1, 1, 1, 1, 1, 1, 1, 1, 1, 1, 1, 1, 1, 1, 1, 1, 1, 1, 1, 1, 1, 1>>,
    <<1, 1, 1, 1, 1, 1, 1, 1, 1, 1, 1, 1, 1, 1, 1, 1, 1, 1, 1, 1, 1, 1, 1, 1, 1, 1, 1, 1, 1, 1, 1, 1, 1, 1, 1, 1, 1, 1, 1, 1, 1, 1, 1, 1, 1, 1, 1, 1, 1, 1, 1, 1, 1, 1, 1, 1, 1, 1, 1, 1, 1, 1, 1, 1, 1, 1, 1, 1, 1, 1, 1, 1, 1, 1, 1, 1, 1, 1, 1, 1, 1, 1, 1, 1, 1, 1, 1, 1, 1, 1, 1, 1, 1, 1, 1, 1, 1>>,
    <<1, 1, 1, 1, 1, 1, 1, 1, 1, 1, 1, 1, 1, 1, 1, 1, 1, 1, 1, 1, 1, 1, 1, 1, 1, 1, 1, 1, 1, 1, 1, 1, 1, 1, 1, 1, 1, 1, 1, 1, 1, 1, 1, 1, 1, 1, 1, 1, 1, 1, 1, 1, 1, 1, 1, 1, 1, 1, 1, 1, 1, 1, 1, 1, 1, 1, 1, 1, 1, 1, 1, 1, 1, 1, 1, 1, 1, 1, 1, 1, 1, 1, 1, 1, 1, 1, 1, 1, 1, 1, 1, 1, 1, 1, 1, 1, 1>>,
    <<1, 1, 1, 1, 1, 1, 1, 1, 1, 1, 1, 1, 1, 1, 1, 1, 1, 1, 1, 1, 1, 1, 1, 1, 1, 1, 1, 1, 1, 1, 1, 1, 1, 1, 1, 1, 1, 1, 1, 1, 1, 1, 1, 1, 1, 1, 1, 1, 1, 1, 1, 1, 1, 1, 1, 1, 1, 1, 1, 1, 1, 1, 1, 1, 1, 1, 1, 1, 1, 1, 1, 1, 1, 1, 1, 1, 1, 1, 1, 1, 1, 1, 1, 1, 1, 1, 1, 1, 1, 1, 1, 1, 1, 1, 1, 1, 1>>,
    <<1, 1, 1, 1, 1, 1, 1, 1, 1, 1, 1, 1, 1, 1, 1, 1, 1, 1, 1, 1, 1, 1, 1, 1, 1, 1, 1, 1, 1, 1, 1, 1, 1, 1, 1, 1, 1, 1, 1, 1, 1, 1, 1, 1, 1, 1, 1, 1, 1, 1, 1, 1, 1, 1, 1, 1, 1, 1, 1, 1, 1, 1, 1, 1, 1, 1, 1, 1, 1, 1, 1, 1, 1, 1, 1, 1, 1, 1, 1, 1, 1, 1, 1, 1, 1, 1, 1, 1, 1, 1, 1, 1, 1, 1, 1, 1, 1>>,
    <<1, 1, 1, 1, 1, 1, 1, 1, 1, 1, 1, 1, 1, 1, 1, 1, 1, 1, 1, 1, 1, 1, 1, 1, 1, 1, 1, 1, 1, 1, 1, 1, 1, 1, 1, 1, 1, 1, 1, 1, 1, 1, 1, 1, 1, 1, 1, 1, 1, 1, 1, 1, 1, 1, 1, 1, 1, 1, 1, 1, 1, 1, 1, 1, 1, 1, 1, 1, 1, 1, 1, 1, 1, 1, 1, 1, 1, 1, 1, 1, 1, 1, 1, 1, 1, 1, 1, 1, 1, 1, 1, 1, 1, 1, 1, 1, 1>>,
    <<1, 1, 1, 1, 1, 1, 1, 1, 1, 1, 1, 1, 1, 1, 1, 1, 1, 1, 1, 1, 1, 1, 1, 1, 1, 1, 1, 1, 1, 1, 1, 1, 1, 1, 1, 1, 1, 1, 1, 1, 1, 1, 1, 1, 1, 1, 1, 1, 1, 1, 1, 1, 1, 1, 1, 1, 1, 1, 1, 1, 1, 1, 1, 1, 1, 1, 1, 1, 1, 1, 1, 1, 1, 1, 1, 1, 1, 1, 1, 1, 1, 1, 1, 1, 1, 1, 1, 1, 1, 1, 1, 1, 1, 1, 1, 1, 1>>,
    <<1, 1, 1, 1, 1, 1, 1, 1, 1, 1, 1, 1, 1, 1, 1, 1, 1, 1, 1, 1, 1, 1, 1, 1, 1, 1, 1, 1, 1, 1, 1, 1, 1, 1, 1, 1, 1, 1, 1, 1, 1, 1, 1, 1, 1, 1, 1, 1, 1, 1, 1, 1, 1, 1, 1, 1, 1, 1, 1, 1, 1, 1, 1, 1, 1, 1, 1, 1, 1, 1, 1, 1, 1, 1, 1, 1, 1, 1, 1, 1, 1, 1, 1, 1, 1, 1, 1, 1, 1, 1, 1, 1, 1, 1, 1, 1, 1>>,
    <<1, 1, 1, 1, 1, 1, 1, 1, 1, 1, 1, 1, 1, 1, 1, 1, 1, 1, 1, 1, 1, 1, 1, 1, 1, 1, 1, 1, 1, 1, 1, 1, 1, 1, 1, 1, 1, 1, 1, 1, 1, 1, 1, 1, 1, 1, 1, 1, 1, 1, 1, 1, 1, 1, 1, 1, 1, 1, 1, 1, 1, 1, 1, 1, 1, 1, 1, 1, 1, 1, 1, 1, 1, 1, 1, 1, 1, 1, 1, 1, 1, 1, 1, 1, 1, 1, 1, 1, 1, 1, 1, 1, 1, 1, 1, 1, 1>>,
    <<1, 1, 1, 1, 1, 1, 1, 1, 1, 1, 1, 1, 1, 1, 1, 1, 1, 1, 1, 1, 1, 1, 1, 1, 1, 1, 1, 1, 1, 1, 1, 1, 1, 1, 1, 1, 1, 1, 1, 1, 1, 1, 1, 1, 1, 1, 1, 1, 1, 1, 1, 1, 1, 1, 1, 1, 1, 1, 1, 1, 1, 1, 1, 1, 1, 1, 1, 1, 1, 1, 1, 1, 1, 1, 1, 1, 1, 1, 1, 1, 1, 1, 1, 1, 1, 1, 1, 1, 1, 1, 1, 1, 1, 1, 1, 1, 1>>,
    <<1, 1, 1, 1, 1, 1, 1, 1, 1, 1, 1, 1, 1, 1, 1, 1, 1, 1, 1, 1, 1, 1, 1, 1, 1, 1, 1, 1, 1, 1, 1, 1, 1, 1, 1, 1, 1, 1, 1, 1, 1, 1, 1, 1, 1, 1, 1, 1, 1, 1, 1, 1, 1, 1, 1, 1, 1, 1, 1, 1, 1, 1, 1, 1, 1, 1, 1, 1, 1, 1, 1, 1, 1, 1, 1, 1, 1, 1, 1, 1, 1, 1, 1, 1, 1, 1, 1, 1, 1, 1, 1, 1, 1, 1, 1, 1, 1>>,
    <<1, 1, 1, 1, 1, 1, 1, 1, 1, 1, 1, 1, 1, 1, 1, 1, 1, 1, 1, 1, 1, 1, 1, 1, 1, 1, 1, 1, 1, 1, 1, 1, 1, 1, 1, 1, 1, 1, 1, 1, 1, 1, 1, 1, 1, 1, 1, 1, 1, 1, 1, 1, 1, 1, 1, 1, 1, 1, 1, 1, 1, 1, 1, 1, 1, 1, 1, 1, 1, 1, 1, 1, 1, 1, 1, 1, 1, 1, 1, 1, 1, 1, 1, 1, 1, 1, 1, 1, 1, 1, 1, 1, 1, 1, 1, 1, 1>>,
    <<1, 1, 1, 1, 1, 1, 1, 1, 1, 1, 1, 1, 1, 1, 1, 1, 1, 1, 1, 1, 1, 1, 1, 1, 1, 1, 1, 1, 1, 1, 1, 1, 1, 1, 1, 1, 1, 1, 1, 1, 1, 1, 1, 1, 1, 1, 1, 1, 1, 1, 1, 1, 1, 1, 1, 1, 1, 1, 1, 1, 1, 1, 1, 1, 1, 1, 1, 1, 1, 1, 1, 1, 1, 1, 1, 1, 1, 1, 1, 1, 1, 1, 1, 1, 1, 1, 1, 1, 1, 1, 1, 1, 1, 1, 1, 1, 1>>,
    <<1, 1, 1, 1, 1, 1, 1, 1, 1, 1, 1, 1, 1, 1, 1, 1, 1, 1, 1, 1, 1, 1, 1, 1, 1, 1, 1, 1, 1, 1, 1, 1, 1, 1, 1, 1, 1, 1, 1, 1, 1, 1, 1, 1, 1, 1, 1, 1, 1, 1, 1, 1, 1, 1, 1, 1, 1, 1, 1, 1, 1, 1, 1, 1, 1, 1, 1, 1, 1, 1, 1, 1, 1, 1, 1, 1, 1, 1, 1, 1, 1, 1, 1, 1, 1, 1, 1, 1, 1, 1, 1, 1, 1, 1, 1, 1, 1>>,
    <<1, 1, 1, 1, 1, 1, 1, 1, 1, 1, 1, 1, 1, 1, 1, 1, 1, 1, 1, 1, 1, 1, 1, 1, 1, 1, 1, 1, 1, 1, 1, 1, 1, 1, 1, 1, 1, 1, 1, 1, 1, 1, 1, 1, 1, 1, 1, 1, 1, 1, 1, 1, 1, 1, 1, 1, 1, 1, 1, 1, 1, 1, 1, 1, 1, 1, 1, 1, 1, 1, 1, 1, 1, 1, 1, 1, 1, 1, 1, 1, 1, 1, 1, 1, 1, 1, 1, 1, 1, 1, 1, 1, 1, 1, 1, 1, 1>>,
    <<1, 1, 1, 1, 1, 1, 1, 1, 1, 1, 1, 1, 1, 1, 1, 1, 1, 1, 1, 1, 1, 1, 1, 1, 1, 1, 1, 1, 1, 1, 1, 1, 1, 1, 1, 1, 1, 1, 1, 1, 1, 1, 1, 1, 1, 1, 1, 1, 1, 1, 1, 1, 1, 1, 1, 1, 1, 1, 1, 1, 1, 1, 1, 1, 1, 1, 1, 1, 1, 1, 1, 1, 1, 1, 1, 1, 1, 1, 1, 1, 1, 1, 1, 1, 1, 1, 1, 1, 1, 1, 1, 1, 1, 1, 1, 1, 1>>,
    <<1, 1, 1, 1, 1, 1, 1, 1, 1, 1, 1, 1, 1, 1, 1, 1, 1, 1, 1, 1, 1, 1, 1, 1, 1, 1, 1, 1, 1, 1, 1, 1, 1, 1, 1, 1, 1, 1, 1, 1, 1, 1, 1, 1, 1, 1, 1, 1, 1, 1, 1, 1, 1, 1, 1, 1, 1, 1, 1, 1, 1, 1, 1, 1, 1, 1, 1, 1, 1, 1, 1, 1, 1, 1, 1, 1, 1, 1, 1, 1, 1, 1, 1, 1, 1, 1, 1, 1, 1, 1, 1, 1, 1, 1, 1, 1, 1>>,
    <<1, 1, 1, 1, 1, 1, 1, 1, 1, 1, 1, 1, 1, 1, 1, 1, 1, 1, 1, 1, 1, 1, 1, 1, 1, 1, 1, 1, 1, 1, 1, 1, 1, 1, 1, 1, 1, 1, 1, 1, 1, 1, 1, 1, 1, 1, 1, 1, 1, 1, 1, 1, 1, 1, 1, 1, 1, 1, 1, 1, 1, 1, 1, 1, 1, 1, 1, 1, 1, 1, 1, 1, 1, 1, 1, 1, 1, 1, 1, 1, 1, 1, 1, 1, 1, 1, 1, 1, 1, 1, 1, 1, 1, 1, 1, 1, 1>>,
    <<1, 1, 1, 1, 1, 1, 1, 1, 1, 1, 1, 1, 1, 1, 1, 1, 1, 1, 1, 1, 1, 1, 1, 1, 1, 1, 1, 1, 1, 1, 1, 1, 1, 1, 1, 1, 1, 1, 1, 1, 1, 1, 1, 1, 1, 1, 1, 1, 1, 1, 1, 1, 1, 1, 1, 1, 1, 1, 1, 1, 1, 1, 1, 1, 1, 1, 1, 1, 1, 1, 1, 1, 1, 1, 1, 1, 1, 1, 1, 1, 1, 1, 1, 1, 1, 1, 1, 1, 1, 1, 1, 1, 1, 1, 1, 1, 1>>,
    <<1, 1, 1, 1, 1, 1, 1, 1, 1, 1, 1, 1, 1, 1, 1, 1, 1, 1, 1, 1, 1, 1, 1, 1, 1, 1, 1, 1, 1, 1, 1, 1, 1, 1, 1, 1, 1, 1, 1, 1, 1, 1, 1, 1, 1, 1, 1, 1, 1, 1, 1, 1, 1, 1, 1, 1, 1, 1, 1, 1, 1, 1, 1, 1, 1, 1, 1, 1, 1, 1, 1, 1, 1, 1, 1, 1, 1, 1, 1, 1, 1, 1, 1, 1, 1, 1, 1, 1, 1, 1, 1, 1, 1, 1, 1, 1, 1>>,
    <<1, 1, 1, 1, 1, 1, 1, 1, 1, 1, 1, 1, 1, 1, 1, 1, 1, 1, 1, 1, 1, 1, 1, 1, 1, 1, 1, 1, 1, 1, 1, 1, 1, 1, 1, 1, 1, 1, 1, 1, 1, 1, 1, 1, 1, 1, 1, 1, 1, 1, 1, 1, 1, 1, 1, 1, 1, 1, 1, 1, 1, 1, 1, 1, 1, 1, 1, 1, 1, 1, 1, 1, 1, 1, 1, 1, 1, 1, 1, 1, 1, 1, 1, 1, 1, 1, 1, 1, 1, 1, 1, 1, 1, 1, 1, 1, 1>>,
    <<1, 1, 1, 1, 1, 1, 1, 1, 1, 1, 1, 1, 1, 1, 1, 1, 1, 1, 1, 1, 1, 1, 1, 1, 1, 1, 1, 1, 1, 1, 1, 1, 1, 1, 1, 1, 1, 1, 1, 1, 1, 1, 1, 1, 1, 1, 1, 1, 1, 1, 1, 1, 1, 1, 1, 1, 1, 1, 1, 1, 1, 1, 1, 1, 1, 1, 1, 1, 1, 1, 1, 1, 1, 1, 1, 1, 1, 1, 1, 1, 1, 1, 1, 1, 1, 1, 1, 1, 1, 1, 1, 1, 1, 1, 1, 1, 1>>,
    <<1, 1, 1, 1, 1, 1, 1, 1, 1, 1, 1, 1, 1, 1, 1, 1, 1, 1, 1, 1, 1, 1, 1, 1, 1, 1, 1, 1, 1, 1, 1, 1, 1, 1, 1, 1, 1, 1, 1, 1, 1, 1, 1, 1, 1, 1, 1, 1, 1, 1, 1, 1, 1, 1, 1, 1, 1, 1, 1, 1, 1, 1, 1, 1, 1, 1, 1, 1, 1, 1, 1, 1, 1, 1, 1, 1, 1, 1, 1, 1, 1, 1, 1, 1, 1, 1, 1, 1, 1, 1, 1, 1, 1, 1, 1, 1, 1>>,
    <<1, 1, 1, 1, 1, 1, 1, 1, 1, 1, 1, 1, 1, 1, 1, 1, 1, 1, 1, 1, 1, 1, 1, 1, 1, 1, 1, 1, 1, 1, 1, 1, 1, 1, 1, 1, 1, 1, 1, 1, 1, 1, 1, 1, 1, 1, 1, 1, 1, 1, 1, 1, 1, 1, 1, 1, 1, 1, 1, 1, 1, 1, 1, 1, 1, 1, 1, 1, 1, 1, 1, 1, 1, 1, 1, 1, 1, 1, 1, 1, 1, 1, 1, 1, 1, 1, 1, 1, 1, 1, 1, 1, 1, 1, 1, 1, 1>>,
    <<1, 1, 1, 1, 1, 1, 1, 1, 1, 1, 1, 1, 1, 1, 1, 1, 1, 1, 1, 1, 1, 1, 1, 1, 1, 1, 1, 1, 1, 1, 1, 1, 1, 1, 1, 1, 1, 1, 1, 1, 1, 1, 1, 1, 1, 1, 1, 1, 1, 1, 1, 1, 1, 1, 1, 1, 1, 1, 1, 1, 1, 1, 1, 1, 1, 1, 1, 1, 1, 1, 1, 1, 1, 1, 1, 1, 1, 1, 1, 1, 1, 1, 1, 1, 1, 1, 1, 1, 1, 1, 1, 1, 1, 1, 1, 1, 1>>,
    <<1, 1, 1, 1, 1, 1, 1, 1, 1, 1, 1, 1, 1, 1, 1, 1, 1, 1, 1, 1, 1, 1, 1, 1, 1, 1, 1, 1, 1, 1, 1, 1, 1, 1, 1, 1, 1, 1, 1, 1, 1, 1, 1, 1, 1, 1, 1, 1, 1, 1, 1, 1, 1, 1, 1, 1, 1, 1, 1, 1, 1, 1, 1, 1, 1, 1, 1, 1, 1, 1, 1, 1, 1, 1, 1, 1, 1, 1, 1, 1, 1, 1, 1, 1, 1, 1, 1, 1, 1, 1, 1, 1, 1, 1, 1, 1, 1>>,
    <<1, 1, 1, 1, 1, 1, 1, 1, 1, 1, 1, 1, 1, 1, 1, 1, 1, 1, 1, 1, 1, 1, 1, 1, 1, 1, 1, 1, 1, 1, 1, 1, 1, 1, 1, 1, 1, 1, 1, 1, 1, 1, 1, 1, 1, 1, 1, 1, 1, 1, 1, 1, 1, 1, 1, 1, 1, 1, 1, 1, 1, 1, 1, 1, 1, 1, 1, 1, 1, 1, 1, 1, 1, 1, 1, 1, 1, 1, 1, 1, 1, 1, 1, 1, 1, 1, 1, 1, 1, 1, 1, 1, 1, 1, 1, 1, 1>>,
    <<1, 1, 1, 1, 1, 1, 1, 1, 1, 1, 1, 1, 1, 1, 1, 1, 1, 1, 1, 1, 1, 1, 1, 1, 1, 1, 1, 1, 1, 1, 1, 1, 1, 1, 1, 1, 1, 1, 1, 1, 1, 1, 1, 1, 1, 1, 1, 1, 1, 1, 1, 1, 1, 1, 1, 1, 1, 1, 1, 1, 1, 1, 1, 1, 1, 1, 1, 1, 1, 1, 1, 1, 1, 1, 1, 1, 1, 1, 1, 1, 1, 1, 1, 1, 1, 1, 1, 1, 1, 1, 1, 1, 1, 1, 1, 1, 1>>,
    <<1, 1, 1, 1, 1, 1, 1, 1, 1, 1, 1, 1, 1, 1, 1, 1, 1, 1, 1, 1, 1, 1, 1, 1, 1, 1, 1, 1, 1, 1, 1, 1, 1, 1, 1, 1, 1, 1, 1, 1, 1, 1, 1, 1, 1, 1, 1, 1, 1, 1, 1, 1, 1, 1, 1, 1, 1, 1, 1, 1, 1, 1, 1, 1, 1, 1, 1, 1, 1, 1, 1, 1, 1, 1, 1, 1, 1, 1, 1, 1, 1, 1, 1, 1, 1, 1, 1, 1, 1, 1, 1, 1, 1, 1, 1, 1, 1>>,
    <<1, 1, 1, 1, 1, 1, 1, 1, 1, 1, 1, 1, 1, 1, 1, 1, 1, 1, 1, 1, 1, 1, 1, 1, 1, 1, 1, 1, 1, 1, 1, 1, 1, 1, 1, 1, 1, 1, 1, 1, 1, 1, 1, 1, 1, 1, 1, 1, 1, 1, 1, 1, 1, 1, 1, 1, 1, 1, 1, 1, 1, 1, 1, 1, 1, 1, 1, 1, 1, 1, 1, 1, 1, 1, 1, 1, 1, 1, 1, 1, 1, 1, 1, 1, 1, 1, 1, 1, 1, 1, 1, 1, 1, 1, 1, 1, 1>>,
    <<1, 1, 1, 1, 1, 1, 1, 1, 1, 1, 1, 1, 1, 1, 1, 1, 1, 1, 1, 1, 1, 1, 1, 1, 1, 1, 1, 1, 1, 1, 1, 1, 1, 1, 1, 1, 1, 1, 1, 1, 1, 1, 1, 1, 1, 1, 1, 1, 1, 1, 1, 1, 1, 1, 1, 1, 1, 1, 1, 1, 1, 1, 1, 1, 1, 1, 1, 1, 1, 1, 1, 1, 1, 1, 1, 1, 1, 1, 1, 1, 1, 1, 1, 1, 1, 1, 1, 1, 1, 1, 1, 1, 1, 1, 1, 1, 1>>,
    <<1, 1, 1, 1, 1, 1, 1, 1, 1, 1, 1, 1, 1, 1, 1, 1, 1, 1, 1, 1, 1, 1, 1, 1, 1, 1, 1, 1, 1, 1, 1, 1, 1, 1, 1, 1, 1, 1, 1, 1, 1, 1, 1, 1, 1, 1, 1, 1, 1, 1, 1, 1, 1, 1, 1, 1, 1, 1, 1, 1, 1, 1, 1, 1, 1, 1, 1, 1, 1, 1, 1, 1, 1, 1, 1, 1, 1, 1, 1, 1, 1, 1, 1, 1, 1, 1, 1, 1, 1, 1, 1, 1, 1, 1, 1, 1, 1>>,
    <<1, 1, 1, 1, 1, 1, 1, 1, 1, 1, 1, 1, 1, 1, 1, 1, 1, 1, 1, 1, 1, 1, 1, 1, 1, 1, 1, 1, 1, 1, 1, 1, 1, 1, 1, 1, 1, 1, 1, 1, 1, 1, 1, 1, 1, 1, 1, 1, 1, 1, 1, 1, 1, 1, 1, 1, 1, 1, 1, 1, 1, 1, 1, 1, 1, 1, 1, 1, 1, 1, 1, 1, 1, 1, 1, 1, 1, 1, 1, 1, 1, 1, 1, 1, 1, 1, 1, 1, 1, 1, 1, 1, 1, 1, 1, 1, 1>>,
    <<1, 1, 1, 1, 1, 1, 1, 1, 1, 1, 1, 1, 1, 1, 1, 1, 1, 1, 1, 1, 1, 1, 1, 1, 1, 1, 1, 1, 1, 1, 1, 1, 1, 1, 1, 1, 1, 1, 1, 1, 1, 1, 1, 1, 1, 1, 1, 1, 1, 1, 1, 1, 1, 1, 1, 1, 1, 1, 1, 1, 1, 1, 1, 1, 1, 1, 1, 1, 1, 1, 1, 1, 1, 1, 1, 1, 1, 1, 1, 1, 1, 1, 1, 1, 1, 1, 1, 1, 1, 1, 1, 1, 1, 1, 1, 1, 1>>,
    <<1, 1, 1, 1, 1, 1, 1, 1, 1, 1, 1, 1, 1, 1, 1, 1, 1, 1, 1, 1, 1, 1, 1, 1, 1, 1, 1, 1, 1, 1, 1, 1, 1, 1, 1, 1, 1, 1, 1, 1, 1, 1, 1, 1, 1, 1, 1, 1, 1, 1, 1, 1, 1, 1, 1, 1, 1, 1, 1, 1, 1, 1, 1, 1, 1, 1, 1, 1, 1, 1, 1, 1, 1, 1, 1, 1, 1, 1, 1, 1, 1, 1, 1, 1, 1, 1, 1, 1, 1, 1, 1, 1, 1, 1, 1, 1, 1>>,
    <<1, 1, 1, 1, 1, 1, 1, 1, 1, 1, 1, 1, 1, 1, 1, 1, 1, 1, 1, 1, 1, 1, 1, 1, 1, 1, 1, 1, 1, 1, 1, 1, 1, 1, 1, 1, 1, 1, 1, 1, 1, 1, 1, 1, 1, 1, 1, 1, 1, 1, 1, 1, 1, 1, 1, 1, 1, 1, 1, 1, 1, 1, 1, 1, 1, 1, 1, 1, 1, 1, 1, 1, 1, 1, 1, 1, 1, 1, 1, 1, 1, 1, 1, 1, 1, 1, 1, 1, 1, 1, 1, 1, 1, 1, 1, 1, 1>>,
    <<1, 1, 1, 1, 1, 1, 1, 1, 1, 1, 1, 1, 1, 1, 1, 1, 1, 1, 1, 1, 1, 1, 1, 1, 1, 1, 1, 1, 1, 1, 1, 1, 1, 1, 1, 1, 1, 1, 1, 1, 1, 1, 1, 1, 1, 1, 1, 1, 1, 1, 1, 1, 1, 1, 1, 1, 1, 1, 1, 1, 1, 1, 1, 1, 1, 1, 1, 1, 1, 1, 1, 1, 1, 1, 1, 1, 1, 1, 1, 1, 1, 1, 1, 1, 1, 1, 1, 1, 1, 1, 1, 1, 1, 1, 1, 1, 1>>,
    <<1, 1, 1, 1, 1, 1, 1, 1, 1, 1, 1, 1, 1, 1, 1, 1, 1, 1, 1, 1, 1, 1, 1, 1, 1, 1, 1, 1, 1, 1, 1, 1, 1, 1, 1, 1, 1, 1, 1, 1, 1, 1, 1, 1, 1, 1, 1, 1, 1, 1, 1, 1, 1, 1, 1, 1, 1, 1, 1, 1, 1, 1, 1, 1, 1, 1, 1, 1, 1, 1, 1, 1, 1, 1, 1, 1, 1, 1, 1, 1, 1, 1, 1, 1, 1, 1, 1, 1, 1, 1, 1, 1, 1, 1, 1, 1, 1>>,
    <<1, 1, 1, 1, 1, 1, 1, 1, 1, 1, 1, 1, 1, 1, 1, 1, 1, 1, 1, 1, 1, 1, 1, 1, 1, 1, 1, 1, 1, 1, 1, 1, 1, 1, 1, 1, 1, 1, 1, 1, 1, 1, 1, 1, 1, 1, 1, 1, 1, 1, 1, 1, 1, 1, 1, 1, 1, 1, 1, 1, 1, 1, 1, 1, 1, 1, 1, 1, 1, 1, 1, 1, 1, 1, 1, 1, 1, 1, 1, 1, 1, 1, 1, 1, 1, 1, 1, 1, 1, 1, 1, 1, 1, 1, 1, 1, 1>>,
    <<1, 1, 1, 1, 1, 1, 1, 1, 1, 1, 1, 1, 1, 1, 1, 1, 1, 1, 1, 1, 1, 1, 1, 1, 1, 1, 1, 1, 1, 1, 1, 1, 1, 1, 1, 1, 1, 1, 1, 1, 1, 1, 1, 1, 1, 1, 1, 1, 1, 1, 1, 1, 1, 1, 1, 1, 1, 1, 1, 1, 1, 1, 1, 1, 1, 1, 1, 1, 1, 1, 1, 1, 1, 1, 1, 1, 1, 1, 1, 1, 1, 1, 1, 1, 1, 1, 1, 1, 1, 1, 1, 1, 1, 1, 1, 1, 1>>,
    <<1, 1, 1, 1, 1, 1, 1, 1, 1, 1, 1, 1, 1, 1, 1, 1, 1, 1, 1, 1, 1, 1, 1, 1, 1, 1, 1, 1, 1, 1, 1, 1, 1, 1, 1, 1, 1, 1, 1, 1, 1, 1, 1, 1, 1, 1, 1, 1, 1, 1, 1, 1, 1, 1, 1, 1, 1, 1, 1, 1, 1, 1, 1, 1, 1, 1, 1, 1, 1, 1, 1, 1, 1, 1, 1, 1, 1, 1, 1, 1, 1, 1, 1, 1, 1, 1, 1, 1, 1, 1, 1, 1, 1, 1, 1, 1, 1>>,
    <<1, 1, 1, 1, 1, 1, 1, 1, 1, 1, 1, 1, 1, 1, 1, 1, 1, 1, 1, 1, 1, 1, 1, 1, 1, 1, 1, 1, 1, 1, 1, 1, 1, 1, 1, 1, 1, 1, 1, 1, 1, 1, 1, 1, 1, 1, 1, 1, 1, 1, 1, 1, 1, 1, 1, 1, 1, 1, 1, 1, 1, 1, 1, 1, 1, 1, 1, 1, 1, 1, 1, 1, 1, 1, 1, 1, 1, 1, 1, 1, 1, 1, 1, 1, 1, 1, 1, 1, 1, 1, 1, 1, 1, 1, 1, 1, 1>>,
    <<1, 1, 1, 1, 1, 1, 1, 1, 1, 1, 1, 1, 1, 1, 1, 1, 1, 1, 1, 1, 1, 1, 1, 1, 1, 1, 1, 1, 1, 1, 1, 1, 1, 1, 1, 1, 1, 1, 1, 1, 1, 1, 1, 1, 1, 1, 1, 1, 1, 1, 1, 1, 1, 1, 1, 1, 1, 1, 1, 1, 1, 1, 1, 1, 1, 1, 1, 1, 1, 1, 1, 1, 1, 1, 1, 1, 1, 1, 1, 1, 1, 1, 1, 1, 1, 1, 1, 1, 1, 1, 1, 1, 1, 1, 1, 1, 1>>,
    <<1, 1, 1, 1, 1, 1, 1, 1, 1, 1, 1, 1, 1, 1, 1, 1, 1, 1, 1, 1, 1, 1, 1, 1, 1, 1, 1, 1, 1, 1, 1, 1, 1, 1, 1, 1, 1, 1, 1, 1, 1, 1, 1, 1, 1, 1, 1, 1, 1, 1, 1, 1, 1, 1, 1, 1, 1, 1, 1, 1, 1, 1, 1, 1, 1, 1, 1, 1, 1, 1, 1, 1, 1, 1, 1, 1, 1, 1, 1, 1, 1, 1, 1, 1, 1, 1, 1, 1, 1, 1, 1, 1, 1, 1, 1, 1, 1>>,
    <<1, 1, 1, 1, 1, 1, 1, 1, 1, 1, 1, 1, 1, 1, 1, 1, 1, 1, 1, 1, 1, 1, 1, 1, 1, 1, 1, 1, 1, 1, 1, 1, 1, 1, 1, 1, 1, 1, 1, 1, 1, 1, 1, 1, 1, 1, 1, 1, 1, 1, 1, 1, 1, 1, 1, 1, 1, 1, 1, 1, 1, 1, 1, 1, 1, 1, 1, 1, 1, 1, 1, 1, 1, 1, 1, 1, 1, 1, 1, 1, 1, 1, 1, 1, 1, 1, 1, 1, 1, 1, 1, 1, 1, 1, 1, 1, 1>>,
    <<1, 1, 1, 1, 1, 1, 1, 1, 1, 1, 1, 1, 1, 1, 1, 1, 1, 1, 1, 1, 1, 1, 1, 1, 1, 1, 1, 1, 1, 1, 1, 1, 1, 1, 1, 1, 1, 1, 1, 1, 1, 1, 1, 1, 1, 1, 1, 1, 1, 1, 1, 1, 1, 1, 1, 1, 1, 1, 1, 1, 1, 1, 1, 1, 1, 1, 1, 1, 1, 1, 1, 1, 1, 1, 1, 1, 1, 1, 1, 1, 1, 1, 1, 1, 1, 1, 1, 1, 1, 1, 1, 1, 1, 1, 1, 1, 1>>,
    <<1, 1, 1, 1, 1, 1, 1, 1, 1, 1, 1, 1, 1, 1, 1, 1, 1, 1, 1, 1, 1, 1, 1, 1, 1, 1, 1, 1, 1, 1, 1, 1, 1, 1, 1, 1, 1, 1, 1, 1, 1, 1, 1, 1, 1, 1, 1, 1, 1, 1, 1, 1, 1, 1, 1, 1, 1, 1, 1, 1, 1, 1, 1, 1, 1, 1, 1, 1, 1, 1, 1, 1, 1, 1, 1, 1, 1, 1, 1, 1, 1, 1, 1, 1, 1, 1, 1, 1, 1, 1, 1, 1, 1, 1, 1, 1, 1>>,
    <<1, 1, 1, 1, 1, 1, 1, 1, 1, 1, 1, 1, 1, 1, 1, 1, 1, 1, 1, 1, 1, 1, 1, 1, 1, 1, 1, 1, 1, 1, 1, 1, 1, 1, 1, 1, 1, 1, 1, 1, 1, 1, 1, 1, 1, 1, 1, 1, 1, 1, 1, 1, 1, 1, 1, 1, 1, 1, 1, 1, 1, 1, 1, 1, 1, 1, 1, 1, 1, 1, 1, 1, 1, 1, 1, 1, 1, 1, 1, 1, 1, 1, 1, 1, 1, 1, 1, 1, 1, 1, 1, 1, 1, 1, 1, 1, 1>>,
    <<1, 1, 1, 1, 1, 1, 1, 1, 1, 1, 1, 1, 1, 1, 1, 1, 1, 1, 1, 1, 1, 1, 1, 1, 1, 1, 1, 1, 1, 1, 1, 1, 1, 1, 1, 1, 1, 1, 1, 1, 1, 1, 1, 1, 1, 1, 1, 1, 1, 1, 1, 1, 1, 1, 1, 1, 1, 1, 1, 1, 1, 1, 1, 1, 1, 1, 1, 1, 1, 1, 1, 1, 1, 1, 1, 1, 1, 1, 1, 1, 1, 1, 1, 1, 1, 1, 1, 1, 1, 1, 1, 1, 1, 1, 1, 1, 1>>,
    <<1, 1, 1, 1, 1, 1, 1, 1, 1, 1, 1, 1, 1, 1, 1, 1, 1, 1, 1, 1, 1, 1, 1, 1, 1, 1, 1, 1, 1, 1, 1, 1, 1, 1, 1, 1, 1, 1, 1, 1, 1, 1, 1, 1, 1, 1, 1, 1, 1, 1, 1, 1, 1, 1, 1, 1, 1, 1, 1, 1, 1, 1, 1, 1, 1, 1, 1, 1, 1, 1, 1, 1, 1, 1, 1, 1, 1, 1, 1, 1, 1, 1, 1, 1, 1, 1, 1, 1, 1, 1, 1, 1, 1, 1, 1, 1, 1>>,
    <<1, 1, 1, 1, 1, 1, 1, 1, 1, 1, 1, 1, 1, 1, 1, 1, 1, 1, 1, 1, 1, 1, 1, 1, 1, 1, 1, 1, 1, 1, 1, 1, 1, 1, 1, 1, 1, 1, 1, 1, 1, 1, 1, 1, 1, 1, 1, 1, 1, 1, 1, 1, 1, 1, 1, 1, 1, 1, 1, 1, 1, 1, 1, 1, 1, 1, 1, 1, 1, 1, 1, 1, 1, 1, 1, 1, 1, 1, 1, 1, 1, 1, 1, 1, 1, 1, 1, 1, 1, 1, 1, 1, 1, 1, 1, 1, 1>>,
    <<1, 1, 1, 1, 1, 1, 1, 1, 1, 1, 1, 1, 1, 1, 1, 1, 1, 1, 1, 1, 1, 1, 1, 1, 1, 1, 1, 1, 1, 1, 1, 1, 1, 1, 1, 1, 1, 1, 1, 1, 1, 1, 1, 1, 1, 1, 1, 1, 1, 1, 1, 1, 1, 1, 1, 1, 1, 1, 1, 1, 1, 1, 1, 1, 1, 1, 1, 1, 1, 1, 1, 1, 1, 1, 1, 1, 1, 1, 1, 1, 1, 1, 1, 1, 1, 1, 1, 1, 1, 1, 1, 1, 1, 1, 1, 1, 1>>,
    <<1, 1, 1, 1, 1, 1, 1, 1, 1, 1, 1, 1, 1, 1, 1, 1, 1, 1, 1, 1, 1, 1, 1, 1, 1, 1, 1, 1, 1, 1, 1, 1, 1, 1, 1, 1, 1, 1, 1, 1, 1, 1, 1, 1, 1, 1, 1, 1, 1, 1, 1, 1, 1, 1, 1, 1, 1, 1, 1, 1, 1, 1, 1, 1, 1, 1, 1, 1, 1, 1, 1, 1, 1, 1, 1, 1, 1, 1, 1, 1, 1, 1, 1, 1, 1, 1, 1, 1, 1, 1, 1, 1, 1, 1, 1, 1, 1>>,
    <<1, 1, 1, 1, 1, 1, 1, 1, 1, 1, 1, 1, 1, 1, 1, 1, 1, 1, 1, 1, 1, 1, 1, 1, 1, 1, 1, 1, 1, 1, 1, 1, 1, 1, 1, 1, 1, 1, 1, 1, 1, 1, 1, 1, 1, 1, 1, 1, 1, 1, 1, 1, 1, 1, 1, 1, 1, 1, 1, 1, 1, 1, 1, 1, 1, 1, 1, 1, 1, 1, 1, 1, 1, 1, 1, 1, 1, 1, 1, 1, 1, 1, 1, 1, 1, 1, 1, 1, 1, 1, 1, 1, 1, 1, 1, 1, 1>>,
    <<1, 1, 1, 1, 1, 1, 1, 1, 1, 1, 1, 1, 1, 1, 1, 1, 1, 1, 1, 1, 1, 1, 1, 1, 1, 1, 1, 1, 1, 1, 1, 1, 1, 1, 1, 1, 1, 1, 1, 1, 1, 1, 1, 1, 1, 1, 1, 1, 1, 1, 1, 1, 1, 1, 1, 1, 1, 1, 1, 1, 1, 1, 1, 1, 1, 1, 1, 1, 1, 1, 1, 1, 1, 1, 1, 1, 1, 1, 1, 1, 1, 1, 1, 1, 1, 1, 1, 1, 1, 1, 1, 1, 1, 1, 1, 1, 1>>,
    <<1, 1, 1, 1, 1, 1, 1, 1, 1, 1, 1, 1, 1, 1, 1, 1, 1, 1, 1, 1, 1, 1, 1, 1, 1, 1, 1, 1, 1, 1, 1, 1, 1, 1, 1, 1, 1, 1, 1, 1, 1, 1, 1, 1, 1, 1, 1, 1, 1, 1, 1, 1, 1, 1, 1, 1, 1, 1, 1, 1, 1, 1, 1, 1, 1, 1, 1, 1, 1, 1, 1, 1, 1, 1, 1, 1, 1, 1, 1, 1, 1, 1, 1, 1, 1, 1, 1, 1, 1, 1, 1, 1, 1, 1, 1, 1, 1>>,
    <<1, 1, 1, 1, 1, 1, 1, 1, 1, 1, 1, 1, 1, 1, 1, 1, 1, 1, 1, 1, 1, 1, 1, 1, 1, 1, 1, 1, 1, 1, 1, 1, 1, 1, 1, 1, 1, 1, 1, 1, 1, 1, 1, 1, 1, 1, 1, 1, 1, 1, 1, 1, 1, 1, 1, 1, 1, 1, 1, 1, 1, 1, 1, 1, 1, 1, 1, 1, 1, 1, 1, 1, 1, 1, 1, 1, 1, 1, 1, 1, 1, 1, 1, 1, 1, 1, 1, 1, 1, 1, 1, 1, 1, 1, 1, 1, 1>>,
    <<1, 1, 1, 1, 1, 1, 1, 1, 1, 1, 1, 1, 1, 1, 1, 1, 1, 1, 1, 1, 1, 1, 1, 1, 1, 1, 1, 1, 1, 1, 1, 1, 1, 1, 1, 1, 1, 1, 1, 1, 1, 1, 1, 1, 1, 1, 1, 1, 1, 1, 1, 1, 1, 1, 1, 1, 1, 1, 1, 1, 1, 1, 1, 1, 1, 1, 1, 1, 1, 1, 1, 1, 1, 1, 1, 1, 1, 1, 1, 1, 1, 1, 1, 1, 1, 1, 1, 1, 1, 1, 1, 1, 1, 1, 1, 1, 1>>,
    <<1, 1, 1, 1, 1, 1, 1, 1, 1, 1, 1, 1, 1, 1, 1, 1, 1, 1, 1, 1, 1, 1, 1, 1, 1, 1, 1, 1, 1, 1, 1, 1, 1, 1, 1, 1, 1, 1, 1, 1, 1, 1, 1, 1, 1, 1, 1, 1, 1, 1, 1, 1, 1, 1, 1, 1, 1, 1, 1, 1, 1, 1, 1, 1, 1, 1, 1, 1, 1, 1, 1, 1, 1, 1, 1, 1, 1, 1, 1, 1, 1, 1, 1, 1, 1, 1, 1, 1, 1, 1, 1, 1, 1, 1, 1, 1, 1>>,
    <<1, 1, 1, 1, 1, 1, 1, 1, 1, 1, 1, 1, 1, 1, 1, 1, 1, 1, 1, 1, 1, 1, 1, 1, 1, 1, 1, 1, 1, 1, 1, 1, 1, 1, 1, 1, 1, 1, 1, 1, 1, 1, 1, 1, 1, 1, 1, 1, 1, 1, 1, 1, 1, 1, 1, 1, 1, 1, 1, 1, 1, 1, 1, 1, 1, 1, 1, 1, 1, 1, 1, 1, 1, 1, 1, 1, 1, 1, 1, 1, 1, 1, 1, 1, 1, 1, 1, 1, 1, 1, 1, 1, 1, 1, 1, 1, 1>>,
    <<1, 1, 1, 1, 1, 1, 1, 1, 1, 1, 1, 1, 1, 1, 1, 1, 1, 1, 1, 1, 1, 1, 1, 1, 1, 1, 1, 1, 1, 1, 1, 1, 1, 1, 1, 1, 1, 1, 1, 1, 1, 1, 1, 1, 1, 1, 1, 1, 1, 1, 1, 1, 1, 1, 1, 1, 1, 1, 1, 1, 1, 1, 1, 1, 1, 1, 1, 1, 1, 1, 1, 1, 1, 1, 1, 1, 1, 1, 1, 1, 1, 1, 1, 1, 1, 1, 1, 1, 1, 1, 1, 1, 1, 1, 1, 1, 1>>,
    <<1, 1, 1, 1, 1, 1, 1, 1, 1, 1, 1, 1, 1, 1, 1, 1, 1, 1, 1, 1, 1, 1, 1, 1, 1, 1, 1, 1, 1, 1, 1, 1, 1, 1, 1, 1, 1, 1, 1, 1, 1, 1, 1, 1, 1, 1, 1, 1, 1, 1, 1, 1, 1, 1, 1, 1, 1, 1, 1, 1, 1, 1, 1, 1, 1, 1, 1, 1, 1, 1, 1, 1, 1, 1, 1, 1, 1, 1, 1, 1, 1, 1, 1, 1, 1, 1, 1, 1, 1, 1, 1, 1, 1, 1, 1, 1, 1>>,
    <<1, 1, 1, 1, 1, 1, 1, 1, 1, 1, 1, 1, 1, 1, 1, 1, 1, 1, 1, 1, 1, 1, 1, 1, 1, 1, 1, 1, 1, 1, 1, 1, 1, 1, 1, 1, 1, 1, 1, 1, 1, 1, 1, 1, 1, 1, 1, 1, 1, 1, 1, 1, 1, 1, 1, 1, 1, 1, 1, 1, 1, 1, 1, 1, 1, 1, 1, 1, 1, 1, 1, 1, 1, 1, 1, 1, 1, 1, 1, 1, 1, 1, 1, 1, 1, 1, 1, 1, 1, 1, 1, 1, 1, 1, 1, 1, 1>>,
    <<1, 1, 1, 1, 1, 1, 1, 1, 1, 1, 1, 1, 1, 1, 1, 1, 1, 1, 1, 1, 1, 1, 1, 1, 1, 1, 1, 1, 1, 1, 1, 1, 1, 1, 1, 1, 1, 1, 1, 1, 1, 1, 1, 1, 1, 1, 1, 1, 1, 1, 1, 1, 1, 1, 1, 1, 1, 1, 1, 1, 1, 1, 1, 1, 1, 1, 1, 1, 1, 1, 1, 1, 1, 1, 1, 1, 1, 1, 1, 1, 1, 1, 1, 1, 1, 1, 1, 1, 1, 1, 1, 1, 1, 1, 1, 1, 1>>,
    <<1, 1, 1, 1, 1, 1, 1, 1, 1, 1, 1, 1, 1, 1, 1, 1, 1, 1, 1, 1, 1, 1, 1, 1, 1, 1, 1, 1, 1, 1, 1, 1, 1, 1, 1, 1, 1, 1, 1, 1, 1, 1, 1, 1, 1, 1, 1, 1, 1, 1, 1, 1, 1, 1, 1, 1, 1, 1, 1, 1, 1, 1, 1, 1, 1, 1, 1, 1, 1, 1, 1, 1, 1, 1, 1, 1, 1, 1, 1, 1, 1, 1, 1, 1, 1, 1, 1, 1, 1, 1, 1, 1, 1, 1, 1, 1, 1>>,
    <<1, 1, 1, 1, 1, 1, 1, 1, 1, 1, 1, 1, 1, 1, 1, 1, 1, 1, 1, 1, 1, 1, 1, 1, 1, 1, 1, 1, 1, 1, 1, 1, 1, 1, 1, 1, 1, 1, 1, 1, 1, 1, 1, 1, 1, 1, 1, 1, 1, 1, 1, 1, 1, 1, 1, 1, 1, 1, 1, 1, 1, 1, 1, 1, 1, 1, 1, 1, 1, 1, 1, 1, 1, 1, 1, 1, 1, 1, 1, 1, 1, 1, 1, 1, 1, 1, 1, 1, 1, 1, 1, 1, 1, 1, 1, 1, 1>>,
    <<1, 1, 1, 1, 1, 1, 1, 1, 1, 1, 1, 1, 1, 1, 1, 1, 1, 1, 1, 1, 1, 1, 1, 1, 1, 1, 1, 1, 1, 1, 1, 1, 1, 1, 1, 1, 1, 1, 1, 1, 1, 1, 1, 1, 1, 1, 1, 1, 1, 1, 1, 1, 1, 1, 1, 1, 1, 1, 1, 1, 1, 1, 1, 1, 1, 1, 1, 1, 1, 1, 1, 1, 1, 1, 1, 1, 1, 1, 1, 1, 1, 1, 1, 1, 1, 1, 1, 1, 1, 1, 1, 1, 1, 1, 1, 1, 1>>,
    <<1, 1, 1, 1, 1, 1, 1, 1, 1, 1, 1, 1, 1, 1, 1, 1, 1, 1, 1, 1, 1, 1, 1, 1, 1, 1, 1, 1, 1, 1, 1, 1, 1, 1, 1, 1, 1, 1, 1, 1, 1, 1, 1, 1, 1, 1, 1, 1, 1, 1, 1, 1, 1, 1, 1, 1, 1, 1, 1, 1, 1, 1, 1, 1, 1, 1, 1, 1, 1, 1, 1, 1, 1, 1, 1, 1, 1, 1, 1, 1, 1, 1, 1, 1, 1, 1, 1, 1, 1, 1, 1, 1, 1, 1, 1, 1, 1>>,
    <<1, 1, 1, 1, 1, 1, 1, 1, 1, 1, 1, 1, 1, 1, 1, 1, 1, 1, 1, 1, 1, 1, 1, 1, 1, 1, 1, 1, 1, 1, 1, 1, 1, 1, 1, 1, 1, 1, 1, 1, 1, 1, 1, 1, 1, 1, 1, 1, 1, 1, 1, 1, 1, 1, 1, 1, 1, 1, 1, 1, 1, 1, 1, 1, 1, 1, 1, 1, 1, 1, 1, 1, 1, 1, 1, 1, 1, 1, 1, 1, 1, 1, 1, 1, 1, 1, 1, 1, 1, 1, 1, 1, 1, 1, 1, 1, 1>>,
    <<1, 1, 1, 1, 1, 1, 1, 1, 1, 1, 1, 1, 1, 1, 1, 1, 1, 1, 1, 1, 1, 1, 1, 1, 1, 1, 1, 1, 1, 1, 1, 1, 1, 1, 1, 1, 1, 1, 1, 1, 1, 1, 1, 1, 1, 1, 1, 1, 1, 1, 1, 1, 1, 1, 1, 1, 1, 1, 1, 1, 1, 1, 1, 1, 1, 1, 1, 1, 1, 1, 1, 1, 1, 1, 1, 1, 1, 1, 1, 1, 1, 1, 1, 1, 1, 1, 1, 1, 1, 1, 1, 1, 1, 1, 1, 1, 1>>,
    <<1, 1, 1, 1, 1, 1, 1, 1, 1, 1, 1, 1, 1, 1, 1, 1, 1, 1, 1, 1, 1, 1, 1, 1, 1, 1, 1, 1, 1, 1, 1, 1, 1, 1, 1, 1, 1, 1, 1, 1, 1, 1, 1, 1, 1, 1, 1, 1, 1, 1, 1, 1, 1, 1, 1, 1, 1, 1, 1, 1, 1, 1, 1, 1, 1, 1, 1, 1, 1, 1, 1, 1, 1, 1, 1, 1, 1, 1, 1, 1, 1, 1, 1, 1, 1, 1, 1, 1, 1, 1, 1, 1, 1, 1, 1, 1, 1>>,
    <<1, 1, 1, 1, 1, 1, 1, 1, 1, 1, 1, 1, 1, 1, 1, 1, 1, 1, 1, 1, 1, 1, 1, 1, 1, 1, 1, 1, 1, 1, 1, 1, 1, 1, 1, 1, 1, 1, 1, 1, 1, 1, 1, 1, 1, 1, 1, 1, 1, 1, 1, 1, 1, 1, 1, 1, 1, 1, 1, 1, 1, 1, 1, 1, 1, 1, 1, 1, 1, 1, 1, 1, 1, 1, 1, 1, 1, 1, 1, 1, 1, 1, 1, 1, 1, 1, 1, 1, 1, 1, 1, 1, 1, 1, 1, 1, 1>>,
    <<1, 1, 1, 1, 1, 1, 1, 1, 1, 1, 1, 1, 1, 1, 1, 1, 1, 1, 1, 1, 1, 1, 1, 1, 1, 1, 1, 1, 1, 1, 1, 1, 1, 1, 1, 1, 1, 1, 1, 1, 1, 1, 1, 1, 1, 1, 1, 1, 1, 1, 1, 1, 1, 1, 1, 1, 1, 1, 1, 1, 1, 1, 1, 1, 1, 1, 1, 1, 1, 1, 1, 1, 1, 1, 1, 1, 1, 1, 1, 1, 1, 1, 1, 1, 1, 1, 1, 1, 1, 1, 1, 1, 1, 1, 1, 1, 1>>,
    <<1, 1, 1, 1, 1, 1, 1, 1, 1, 1, 1, 1, 1, 1, 1, 1, 1, 1, 1, 1, 1, 1, 1, 1, 1, 1, 1, 1, 1, 1, 1, 1, 1, 1, 1, 1, 1, 1, 1, 1, 1, 1, 1, 1, 1, 1, 1, 1, 1, 1, 1, 1, 1, 1, 1, 1, 1, 1, 1, 1, 1, 1, 1, 1, 1, 1, 1, 1, 1, 1, 1, 1, 1, 1, 1, 1, 1, 1, 1, 1, 1, 1, 1, 1, 1, 1, 1, 1, 1, 1, 1, 1, 1, 1, 1, 1, 1>>,
    <<1, 1, 1, 1, 1, 1, 1, 1, 1, 1, 1, 1, 1, 1, 1, 1, 1, 1, 1, 1, 1, 1, 1, 1, 1, 1, 1, 1, 1, 1, 1, 1, 1, 1, 1, 1, 1, 1, 1, 1, 1, 1, 1, 1, 1, 1, 1, 1, 1, 1, 1, 1, 1, 1, 1, 1, 1, 1, 1, 1, 1, 1, 1, 1, 1, 1, 1, 1, 1, 1, 1, 1, 1, 1, 1, 1, 1, 1, 1, 1, 1, 1, 1, 1, 1, 1, 1, 1, 1, 1, 1, 1, 1, 1, 1, 1, 1>>,
    <<1, 1, 1, 1, 1, 1, 1, 1, 1, 1, 1, 1, 1, 1, 1, 1, 1, 1, 1, 1, 1, 1, 1, 1, 1, 1, 1, 1, 1, 1, 1, 1, 1, 1, 1, 1, 1, 1, 1, 1, 1, 1, 1, 1, 1, 1, 1, 1, 1, 1, 1, 1, 1, 1, 1, 1, 1, 1, 1, 1, 1, 1, 1, 1, 1, 1, 1, 1, 1, 1, 1, 1, 1, 1, 1, 1, 1, 1, 1, 1, 1, 1, 1, 1, 1, 1, 1, 1, 1, 1, 1, 1, 1, 1, 1, 1, 1>>,
    <<1, 1, 1, 1, 1, 1, 1, 1, 1, 1, 1, 1, 1, 1, 1, 1, 1, 1, 1, 1, 1, 1, 1, 1, 1, 1, 1, 1, 1, 1, 1, 1, 1, 1, 1, 1, 1, 1, 1, 1, 1, 1, 1, 1, 1, 1, 1, 1, 1, 1, 1, 1, 1, 1, 1, 1, 1, 1, 1, 1, 1, 1, 1, 1, 1, 1, 1, 1, 1, 1, 1, 1, 1, 1, 1, 1, 1, 1, 1, 1, 1, 1, 1, 1, 1, 1, 1, 1, 1, 1, 1, 1, 1, 1, 1, 1, 1>>,
    <<1, 1, 1, 1, 1, 1, 1, 1, 1, 1, 1, 1, 1, 1, 1, 1, 1, 1, 1, 1, 1, 1, 1, 1, 1, 1, 1, 1, 1, 1, 1, 1, 1, 1, 1, 1, 1, 1, 1, 1, 1, 1, 1, 1, 1, 1, 1, 1, 1, 1, 1, 1, 1, 1, 1, 1, 1, 1, 1, 1, 1, 1, 1, 1, 1, 1, 1, 1, 1, 1, 1, 1, 1, 1, 1, 1, 1, 1, 1, 1, 1, 1, 1, 1, 1, 1, 1, 1, 1, 1, 1, 1, 1, 1, 1, 1, 1>>,
    <<1, 1, 1, 1, 1, 1, 1, 1, 1, 1, 1, 1, 1, 1, 1, 1, 1, 1, 1, 1, 1, 1, 1, 1, 1, 1, 1, 1, 1, 1, 1, 1, 1, 1, 1, 1, 1, 1, 1, 1, 1, 1, 1, 1, 1, 1, 1, 1, 1, 1, 1, 1, 1, 1, 1, 1, 1, 1, 1, 1, 1, 1, 1, 1, 1, 1, 1, 1, 1, 1, 1, 1, 1, 1, 1, 1, 1, 1, 1, 1, 1, 1, 1, 1, 1, 1, 1, 1, 1, 1, 1, 1, 1, 1, 1, 1, 1>>,
    <<1, 1, 1, 1, 1, 1, 1, 1, 1, 1, 1, 1, 1, 1, 1, 1, 1, 1, 1, 1, 1, 1, 1, 1, 1, 1, 1, 1, 1, 1, 1, 1, 1, 1, 1, 1, 1, 1, 1, 1, 1, 1, 1, 1, 1, 1, 1, 1, 1, 1, 1, 1, 1, 1, 1, 1, 1, 1, 1, 1, 1, 1, 1, 1, 1, 1, 1, 1, 1, 1, 1, 1, 1, 1, 1, 1, 1, 1, 1, 1, 1, 1, 1, 1, 1, 1, 1, 1, 1, 1, 1, 1, 1, 1, 1, 1, 1>>,
    <<1, 1, 1, 1, 1, 1, 1, 1, 1, 1, 1, 1, 1, 1, 1, 1, 1, 1, 1, 1, 1, 1, 1, 1, 1, 1, 1, 1, 1, 1, 1, 1, 1, 1, 1, 1, 1, 1, 1, 1, 1, 1, 1, 1, 1, 1, 1, 1, 1, 1, 1, 1, 1, 1, 1, 1, 1, 1, 1, 1, 1, 1, 1, 1, 1, 1, 1, 1, 1, 1, 1, 1, 1, 1, 1, 1, 1, 1, 1, 1, 1, 1, 1, 1, 1, 1, 1, 1, 1, 1, 1, 1, 1, 1, 1, 1, 1>>,
    <<1, 1, 1, 1, 1, 1, 1, 1, 1, 1, 1, 1, 1, 1, 1, 1, 1, 1, 1, 1, 1, 1, 1, 1, 1, 1, 1, 1, 1, 1, 1, 1, 1, 1, 1, 1, 1, 1, 1, 1, 1, 1, 1, 1, 1, 1, 1, 1, 1, 1, 1, 1, 1, 1, 1, 1, 1, 1, 1, 1, 1, 1, 1, 1, 1, 1, 1, 1, 1, 1, 1, 1, 1, 1, 1, 1, 1, 1, 1, 1, 1, 1, 1, 1, 1, 1, 1, 1, 1, 1, 1, 1, 1, 1, 1, 1, 1>>,
    <<1, 1, 1, 1, 1, 1, 1, 1, 1, 1, 1, 1, 1, 1, 1, 1, 1, 1, 1, 1, 1, 1, 1, 1, 1, 1, 1, 1, 1, 1, 1, 1, 1, 1, 1, 1, 1, 1, 1, 1, 1, 1, 1, 1, 1, 1, 1, 1, 1, 1, 1, 1, 1, 1, 1, 1, 1, 1, 1, 1, 1, 1, 1, 1, 1, 1, 1, 1, 1, 1, 1, 1, 1, 1, 1, 1, 1, 1, 1, 1, 1, 1, 1, 1, 1, 1, 1, 1, 1, 1, 1, 1, 1, 1, 1, 1, 1>>,
    <<1, 1, 1, 1, 1, 1, 1, 1, 1, 1, 1, 1, 1, 1, 1, 1, 1, 1, 1, 1, 1, 1, 1, 1, 1, 1, 1, 1, 1, 1, 1, 1, 1, 1, 1, 1, 1, 1, 1, 1, 1, 1, 1, 1, 1, 1, 1, 1, 1, 1, 1, 1, 1, 1, 1, 1, 1, 1, 1, 1, 1, 1, 1, 1, 1, 1, 1, 1, 1, 1, 1, 1, 1, 1, 1, 1, 1, 1, 1, 1, 1, 1, 1, 1, 1, 1, 1, 1, 1, 1, 1, 1, 1, 1, 1, 1, 1>>,
    <<1, 1, 1, 1, 1, 1, 1, 1, 1, 1, 1, 1, 1, 1, 1, 1, 1, 1, 1, 1, 1, 1, 1, 1, 1, 1, 1, 1, 1, 1, 1, 1, 1, 1, 1, 1, 1, 1, 1, 1, 1, 1, 1, 1, 1, 1, 1, 1, 1, 1, 1, 1, 1, 1, 1, 1, 1, 1, 1, 1, 1, 1, 1, 1, 1, 1, 1, 1, 1, 1, 1, 1, 1, 1, 1, 1, 1, 1, 1, 1, 1, 1, 1, 1, 1, 1, 1, 1, 1, 1, 1, 1, 1, 1, 1, 1, 1>>,
    <<1, 1, 1, 1, 1, 1, 1, 1, 1, 1, 1, 1, 1, 1, 1, 1, 1, 1, 1, 1, 1, 1, 1, 1, 1, 1, 1, 1, 1, 1, 1, 1, 1, 1, 1, 1, 1, 1, 1, 1, 1, 1, 1, 1, 1, 1, 1, 1, 1, 1, 1, 1, 1, 1, 1, 1, 1, 1, 1, 1, 1, 1, 1, 1, 1, 1, 1, 1, 1, 1, 1, 1, 1, 1, 1, 1, 1, 1, 1, 1, 1, 1, 1, 1, 1, 1, 1, 1, 1, 1, 1, 1, 1, 1, 1, 1, 1>>,
    <<1, 1, 1, 1, 1, 1, 1, 1, 1, 1, 1, 1, 1, 1, 1, 1, 1, 1, 1, 1, 1, 1, 1, 1, 1, 1, 1, 1, 1, 1, 1, 1, 1, 1, 1, 1, 1, 1, 1, 1, 1, 1, 1, 1, 1, 1, 1, 1, 1, 1, 1, 1, 1, 1, 1, 1, 1, 1, 1, 1, 1, 1, 1, 1, 1, 1, 1, 1, 1, 1, 1, 1, 1, 1, 1, 1, 1, 1, 1, 1, 1, 1, 1, 1, 1, 1, 1, 1, 1, 1, 1, 1, 1, 1, 1, 1, 1>>,
    <<1, 1, 1, 1, 1, 1, 1, 1, 1, 1, 1, 1, 1, 1, 1, 1, 1, 1, 1, 1, 1, 1, 1, 1, 1, 1, 1, 1, 1, 1, 1, 1, 1, 1, 1, 1, 1, 1, 1, 1, 1, 1, 1, 1, 1, 1, 1, 1, 1, 1, 1, 1, 1, 1, 1, 1, 1, 1, 1, 1, 1, 1, 1, 1, 1, 1, 1, 1, 1, 1, 1, 1, 1, 1, 1, 1, 1, 1, 1, 1, 1, 1, 1, 1, 1, 1, 1, 1, 1, 1, 1, 1, 1, 1, 1, 1, 1>>,
    <<1, 1, 1, 1, 1, 1, 1, 1, 1, 1, 1, 1, 1, 1, 1, 1, 1, 1, 1, 1, 1, 1, 1, 1, 1, 1, 1, 1, 1, 1, 1, 1, 1, 1, 1, 1, 1, 1, 1, 1, 1, 1, 1, 1, 1, 1, 1, 1, 1, 1, 1, 1, 1, 1, 1, 1, 1, 1, 1, 1, 1, 1, 1, 1, 1, 1, 1, 1, 1, 1, 1, 1, 1, 1, 1, 1, 1, 1, 1, 1, 1, 1, 1, 1, 1, 1, 1, 1, 1, 1, 1, 1, 1, 1, 1, 1, 1>>,
    <<1, 1, 1, 1, 1, 1, 1, 1, 1, 1, 1, 1, 1, 1, 1, 1, 1, 1, 1, 1, 1, 1, 1, 1, 1, 1, 1, 1, 1, 1, 1, 1, 1, 1, 1, 1, 1, 1, 1, 1, 1, 1, 1, 1, 1, 1, 1, 1, 1, 1, 1, 1, 1, 1, 1, 1, 1, 1, 1, 1, 1, 1, 1, 1, 1, 1, 1, 1, 1, 1, 1, 1, 1, 1, 1, 1, 1, 1, 1, 1, 1, 1, 1, 1, 1, 1, 1, 1, 1, 1, 1, 1, 1, 1, 1, 1, 1>>,
    <<1, 1, 1, 1, 1, 1, 1, 1, 1, 1, 1, 1, 1, 1, 1, 1, 1, 1, 1, 1, 1, 1, 1, 1, 1, 1, 1, 1, 1, 1, 1, 1, 1, 1, 1, 1, 1, 1, 1, 1, 1, 1, 1, 1, 1, 1, 1, 1, 1, 1, 1, 1, 1, 1, 1, 1, 1, 1, 1, 1, 1, 1, 1, 1, 1, 1, 1, 1, 1, 1, 1, 1, 1, 1, 1, 1, 1, 1, 1, 1, 1, 1, 1, 1, 1, 1, 1, 1, 1, 1, 1, 1, 1, 1, 1, 1, 1>>,
    <<1, 1, 1, 1, 1, 1, 1, 1, 1, 1, 1, 1, 1, 1, 1, 1, 1, 1, 1, 1, 1, 1, 1, 1, 1, 1, 1, 1, 1, 1, 1, 1, 1, 1, 1, 1, 1, 1, 1, 1, 1, 1, 1, 1, 1, 1, 1, 1, 1, 1, 1, 1, 1, 1, 1, 1, 1, 1, 1, 1, 1, 1, 1, 1, 1, 1, 1, 1, 1, 1, 1, 1, 1, 1, 1, 1, 1, 1, 1, 1, 1, 1, 1, 1, 1, 1, 1, 1, 1, 1, 1, 1, 1, 1, 1, 1, 1>>,
    <<1, 1, 1, 1, 1, 1, 1, 1, 1, 1, 1, 1, 1, 1, 1, 1, 1, 1, 1, 1, 1, 1, 1, 1, 1, 1, 1, 1, 1, 1, 1, 1, 1, 1, 1, 1, 1, 1, 1, 1, 1, 1, 1, 1, 1, 1, 1, 1, 1, 1, 1, 1, 1, 1, 1, 1, 1, 1, 1, 1, 1, 1, 1, 1, 1, 1, 1, 1, 1, 1, 1, 1, 1, 1, 1, 1, 1, 1, 1, 1, 1, 1, 1, 1, 1, 1, 1, 1, 1, 1, 1, 1, 1, 1, 1, 1, 1>>,
    <<1, 1, 1, 1, 1, 1, 1, 1, 1, 1, 1, 1, 1, 1, 1, 1, 1, 1, 1, 1, 1, 1, 1, 1, 1, 1, 1, 1, 1, 1, 1, 1, 1, 1, 1, 1, 1, 1, 1, 1, 1, 1, 1, 1, 1, 1, 1, 1, 1, 1, 1, 1, 1, 1, 1, 1, 1, 1, 1, 1, 1, 1, 1, 1, 1, 1, 1, 1, 1, 1, 1, 1, 1, 1, 1, 1, 1, 1, 1, 1, 1, 1, 1, 1, 1, 1, 1, 1, 1, 1, 1, 1, 1, 1, 1, 1, 1>>,
    <<1, 1, 1, 1, 1, 1, 1, 1, 1, 1, 1, 1, 1, 1, 1, 1, 1, 1, 1, 1, 1, 1, 1, 1, 1, 1, 1, 1, 1, 1, 1, 1, 1, 1, 1, 1, 1, 1, 1, 1, 1, 1, 1, 1, 1, 1, 1, 1, 1, 1, 1, 1, 1, 1, 1, 1, 1, 1, 1, 1, 1, 1, 1, 1, 1, 1, 1, 1, 1, 1, 1, 1, 1, 1, 1, 1, 1, 1, 1, 1, 1, 1, 1, 1, 1, 1, 1, 1, 1, 1, 1, 1, 1, 1, 1, 1, 1>>,
    <<1, 1, 1, 1, 1, 1, 1, 1, 1, 1, 1, 1, 1, 1, 1, 1, 1, 1, 1, 1, 1, 1, 1, 1, 1, 1, 1, 1, 1, 1, 1, 1, 1, 1, 1, 1, 1, 1, 1, 1, 1, 1, 1, 1, 1, 1, 1, 1, 1, 1, 1, 1, 1, 1, 1, 1, 1, 1, 1, 1, 1, 1, 1, 1, 1, 1, 1, 1, 1, 1, 1, 1, 1, 1, 1, 1, 1, 1, 1, 1, 1, 1, 1, 1, 1, 1, 1, 1, 1, 1, 1, 1, 1, 1, 1, 1, 1>>,
    <<1, 1, 1, 1, 1, 1, 1, 1, 1, 1, 1, 1, 1, 1, 1, 1, 1, 1, 1, 1, 1, 1, 1, 1, 1, 1, 1, 1, 1, 1, 1, 1, 1, 1, 1, 1, 1, 1, 1, 1, 1, 1, 1, 1, 1, 1, 1, 1, 1, 1, 1, 1, 1, 1, 1, 1, 1, 1, 1, 1, 1, 1, 1, 1, 1, 1, 1, 1, 1, 1, 1, 1, 1, 1, 1, 1, 1, 1, 1, 1, 1, 1, 1, 1, 1, 1, 1, 1, 1, 1, 1, 1, 1, 1, 1, 1, 1>>,
    <<1, 1, 1, 1, 1, 1, 1, 1, 1, 1, 1, 1, 1, 1, 1, 1, 1, 1, 1, 1, 1, 1, 1, 1, 1, 1, 1, 1, 1, 1, 1, 1, 1, 1, 1, 1, 1, 1, 1, 1, 1, 1, 1, 1, 1, 1, 1, 1, 1, 1, 1, 1, 1, 1, 1, 1, 1, 1, 1, 1, 1, 1, 1, 1, 1, 1, 1, 1, 1, 1, 1, 1, 1, 1, 1, 1, 1, 1, 1, 1, 1, 1, 1, 1, 1, 1, 1, 1, 1, 1, 1, 1, 1, 1, 1, 1, 1>>,
    <<1, 1, 1, 1, 1, 1, 1, 1, 1, 1, 1, 1, 1, 1, 1, 1, 1, 1, 1, 1, 1, 1, 1, 1, 1, 1, 1, 1, 1, 1, 1, 1, 1, 1, 1, 1, 1, 1, 1, 1, 1, 1, 1, 1, 1, 1, 1, 1, 1, 1, 1, 1, 1, 1, 1, 1, 1, 1, 1, 1, 1, 1, 1, 1, 1, 1, 1, 1, 1, 1, 1, 1, 1, 1, 1, 1, 1, 1, 1, 1, 1, 1, 1, 1, 1, 1, 1, 1, 1, 1, 1, 1, 1, 1, 1, 1, 1>>
  >>
EscapeTable(cap) ==
  IF cap = 250 THEN EscapeTable250
  ELSE IF cap = 1000 THEN EscapeTable1000
  ELSE EscapeTable50000
EscapeGrid ==
  [cap \in GridCaps |-> [a \in GridR |-> [b \in GridI |->
     EscapeTable(cap)[a - GridRMin + 1][b - GridIMin + 1]]]]

\* a loop that does not count its first iteration
IterationsSkipFirst(cr, ci, cap) ==
  IF /\ cap \in GridCaps /\ cr % GridStep = 0 /\ ci % GridStep = 0
     /\ (cr \div GridStep) \in GridR /\ (ci \div GridStep) \in GridI
  THEN EscapeGrid[cap][cr \div GridStep][ci \div GridStep] - 1
  ELSE EscapeN(cr, ci, cap) - 1
\* this.ns[k] = n, for the sample (cr, ci)
Iterations(cr, ci, cap) ==
  IF /\ cap \in GridCaps /\ cr % GridStep = 0 /\ ci % GridStep = 0
     /\ (cr \div GridStep) \in GridR /\ (ci \div GridStep) \in GridI
  THEN EscapeGrid[cap][cr \div GridStep][ci \div GridStep]
  ELSE EscapeN(cr, ci, cap)

\* ------------------------------------------------------------------ state
VARIABLES
  \* --- class Mandelbrot
  center,        \* this.center: <<center[0], center[1]>>
  width,         \* this.width
  height,        \* this.height
  colorFuncId,   \* this.colorFuncId
  maxN,          \* this.maxN
  inc,           \* this.inc
  scanning,      \* this.scanning
  scanLoop,      \* this.scanLoop
  scanPromise,   \* this.scanPromise: the run whose promise it is, 0 = undefined
  ns,            \* this.ns: iteration count of pixel k, 0 .. imgSize-1
  src,           \* this.dist, this.finalang, this.dwell of pixel k, held as the
                 \* sample and maxN they were computed from (zero after a reset)
  pix,           \* this.pix: 1 = pixel k is still to be coloured
  scanDone,      \* this.scanDone
  image,         \* this.image.data: the bytes r, g, b, alpha of pixel k
  \* --- class MandelbrotControls
  params,        \* this.params
  zoomChain,     \* this.zoomChain
  colorSelect,   \* this.colorSelect.value
  pointerDown,   \* this.pointerDown
  mouseX, mouseY, mouseXIni, mouseYIni,   \* in half pixels
  \* --- the host
  started,       \* start() has been called
  runs,          \* the activations of _scan that have not returned yet
  waiters,       \* handlers suspended in `await this.mandelbrot.cancel()`
  jobs,          \* the microtask queue
  \* --- what an observer sees
  lastEvent,     \* the notification dispatched last
  lastWriter,    \* the run that wrote pixel records last, 0 = none
  chain,         \* bookkeeping of a zoom-in / zoom-out sequence
  painted,       \* a render pass has run since a run last started or returned
  probe,         \* the last call of a pure function: its name, input and result
  view           \* the controls and their viewport in float64 arithmetic

mvars == <<center, width, height, colorFuncId, maxN, inc, scanning, scanLoop,
           scanPromise, ns, src, pix, scanDone, image>>
cvars == <<params, zoomChain, colorSelect>>
pvars == <<pointerDown, mouseX, mouseY, mouseXIni, mouseYIni>>
hvars == <<started, runs, waiters, jobs>>
ovars == <<lastEvent, lastWriter, chain, painted, probe, view>>
vars == <<mvars, cvars, pvars, hvars, ovars>>

Pixels == 0 .. imgSize - 1
NavKinds == {"reset", "repaint", "zoomIn", "zoomOut"}

\* constructor of MandelbrotControls: this.defaultParams
defaultParams == [center |-> initCenter, width |-> initWidth,
                  height |-> initHeight, colorFuncId |-> initColorFuncId]

\* a zoomChain entry made of the engine's viewport
ChainEntry(c, w, h) == [center |-> c, width |-> w, height |-> h]

NoEvent == [type |-> "none", kind |-> "none",
            data |-> [center |-> initCenter, width |-> 0, height |-> 0, colorFuncId |-> 0],
            success |-> TRUE,
            startData |-> [center |-> initCenter, width |-> 0, height |-> 0, colorFuncId |-> 0],
            cancelReq |-> FALSE]
\* a colour is the three bytes image.data keeps of a colour array
\* _color: [0, 0, 0] for a pixel without a result
Black == <<0, 0, 0>>
\* _colorCheckered: [255, 255, 255] when ns[k] >= this.maxN
White == <<255, 255, 255>>
\* createImageData: the four bytes of a pixel are 0, transparent black
Blank == <<0, 0, 0, 0>>
\* render: the bytes of the colour, then alpha 255
Opaque(c) == <<c[1], c[2], c[3], 255>>
NoSample == <<0, 0, 0>>
NoProbe == [op |-> "none", arg |-> <<>>, res |-> <<>>]
\* before the constructors have run
NoView == [canvas |-> <<0, 0>>]

NoChain == [phase |-> "none", ins |-> 0, outs |-> 0,
            vp |-> ChainEntry(initCenter, 0, 0), hist |-> <<>>]
Broken == [NoChain EXCEPT !.phase = "broken"]

Init ==
  /\ ConstructViewport(imgWidth, imgHeight) =
       [center |-> <<FZero, FZero>>, width |-> FromInt(initWidth, -ScaleBits),
        height |-> FromInt(initHeight, -ScaleBits)]
  /\ center = initCenter
  /\ width = initWidth
  /\ height = initHeight
  /\ colorFuncId = initColorFuncId
  /\ maxN = GetMaxN(initWidth, initHeight)
  /\ inc = initWidth \div imgWidth
  /\ scanning = FALSE
  /\ scanLoop = FALSE
  /\ scanPromise = 0
  /\ ns = [k \in Pixels |-> 0]
  /\ src = [k \in Pixels |-> NoSample]
  /\ pix = [k \in Pixels |-> 1]
  /\ scanDone = TRUE
  /\ image = [k \in Pixels |-> Blank]
  /\ params = defaultParams
  /\ zoomChain = <<ChainEntry(initCenter, initWidth, initHeight)>>
  /\ colorSelect = initColorFuncId
  /\ pointerDown = FALSE
  /\ mouseX = 0 /\ mouseY = 0 /\ mouseXIni = 0 /\ mouseYIni = 0
  /\ started = FALSE
  /\ runs = <<>>
  /\ waiters = <<>>
  /\ jobs = <<>>
  /\ lastEvent = NoEvent
  /\ lastWriter = 0
  /\ chain = NoChain
  /\ painted = FALSE
  /\ probe = NoProbe
  /\ view = NoView

\* ------------------------------------------------- Mandelbrot, continued
\* a reset that leaves the iteration counts of the scan before
ResetDataStructsKept == ns
\* _resetDataStructs
ResetDataStructs == [k \in Pixels |-> 0]
ResetSrc == [k \in Pixels |-> NoSample]
ResetPix == [k \in Pixels |-> 1]
\* a _scan that leaves scanLoop as the last cancel() set it
ScanLoopAtStartKept == scanLoop
\* _scan: this.scanLoop = true
ScanLoopAtStart == TRUE

\* _getEventData: the engine's parameters as a notification carries them
EventData(c, w, h, cid) == [center |-> c, width |-> w, height |-> h, colorFuncId |-> cid]

\* a notification: type, data and success are what the handlers get; kind
\* (the handler that started the scan), startData (what the scan-start of the
\* same run carried) and cancelReq (cancel() was called during the run) are
\* kept beside them for the properties
Event(type, kind, data, success, startData, cancelReq) ==
  [type |-> type, kind |-> kind, data |-> data, success |-> success,
   startData |-> startData, cancelReq |-> cancelReq]

\* The rows a run sweeps before it next gives up control: after each row the
\* clock decides whether it sleeps (performance.now() - t > WAIT_MS).  `done`
\* says that it ran through the last row without sleeping and returned.
Slices(i) ==
  {[rows |-> j, done |-> FALSE] : j \in 1 .. imgHeight - i}
    \cup {[rows |-> imgHeight - i, done |-> TRUE]}

\* The body of the row loop of _scan, `rows` times: the run's own i, k, cr and
\* ciIni, and the engine's inc and maxN as they are now.
Sweep(a, run, rows, curInc, cap) ==
  [k \in Pixels |->
     IF k >= run.k /\ k < run.k + rows * imgWidth
     THEN Iterations(run.cr + ((k - run.k) \div imgWidth) * curInc,
                     run.ciIni + ((k - run.k) % imgWidth) * curInc, cap)
     ELSE a[k]]

\* the same rows, for this.dist, this.finalang and this.dwell
SweepSrc(a, run, rows, curInc, cap) ==
  [k \in Pixels |->
     IF k >= run.k /\ k < run.k + rows * imgWidth
     THEN <<run.cr + ((k - run.k) \div imgWidth) * curInc,
            run.ciIni + ((k - run.k) % imgWidth) * curInc, cap>>
     ELSE a[k]]

\* The colours of escaped samples.  The record _scan writes for a sample
\* (dist, finalang, dwell) is a function of the sample and of maxN, and the
\* colour a function of the record and of this.inc.  A row is
\* <<cr, ci, maxN, inc, r, g, b, gray>>, with cr, ci and inc in 1/Scale:
\* r, g, b are the bytes image.data keeps of the array _colorCheckered
\* returns (hue, saturation and value of the record, then _hsvToRgb), gray
\* the byte it keeps of _colorCheckeredBlackAndWhite's, which is Math.round of
\* the weighted sum of the three unrounded components.  image.data is a
\* Uint8ClampedArray: a number is clamped to 0 .. 255 and rounded to the
\* nearest integer, ties to even.  The values are those of the program's
\* float64 arithmetic.
ColorRows == <<
  <<-28672, -12288, 250, 1024, 255, 10, 79, 91>>,
  <<-28672, -4096, 250, 1024, 255, 10, 79, 91>>,
  <<-20480, -12288, 250, 1024, 255, 10, 79, 91>>,
  <<-20480, -8192, 250, 1024, 255, 10, 79, 91>>,
  <<-20480, -4096, 250, 1024, 255, 10, 79, 91>>,
  <<-20480, 0, 250, 1024, 136, 10, 255, 76>>,
  <<-15872, -7680, 250, 1024, 255, 10, 79, 91>>,
  <<-15872, -6656, 250, 1024, 255, 10, 79, 91>>,
  <<-15360, -7168, 250, 1024, 255, 10, 80, 91>>,
  <<-15360, -5120, 250, 1024, 187, 217, 72, 191>>,
  <<-15360, -3072, 250, 1024, 187, 217, 72, 191>>,
  <<-15360, -1024, 250, 1024, 187, 217, 72, 191>>,
  <<-15360, 1024, 250, 1024, 217, 73, 72, 116>>,
  <<-14848, -7680, 250, 1024, 255, 10, 80, 91>>,
  <<-14848, -6656, 250, 1024, 187, 217, 72, 191>>,
  <<-14336, -6144, 250, 1024, 187, 217, 72, 191>>,
  <<-14336, -2048, 250, 1024, 187, 217, 72, 191>>,
  <<-14336, 2048, 250, 1024, 217, 73, 72, 116>>,
  <<-13824, -7680, 250, 1024, 187, 217, 72, 191>>,
  <<-13824, -6656, 250, 1024, 187, 217, 72, 191>>,
  <<-13824, -5632, 250, 1024, 187, 217, 72, 191>>,
  <<-13312, -7168, 250, 1024, 187, 217, 72, 191>>,
  <<-13312, -5120, 250, 1024, 187, 217, 72, 191>>,
  <<-13312, -3072, 250, 1024, 187, 217, 72, 191>>,
  <<-13312, -1024, 250, 1024, 187, 217, 72, 191>>,
  <<-13312, 1024, 250, 1024, 217, 73, 72, 116>>,
  <<-12800, -7680, 250, 1024, 187, 217, 72, 191>>,
  <<-12800, -6656, 250, 1024, 187, 217, 72, 191>>,
  <<-12800, -5632, 250, 1024, 187, 217, 72, 191>>,
  <<-12288, -12288, 250, 1024, 255, 10, 79, 91>>,
  <<-12288, -8192, 250, 1024, 187, 217, 72, 191>>,
  <<-12288, -6144, 250, 1024, 187, 217, 72, 191>>,
  <<-12288, -4096, 250, 1024, 187, 217, 72, 191>>,
  <<-12288, -2048, 250, 1024, 187, 217, 72, 191>>,
  <<-12288, 0, 250, 1024, 217, 73, 72, 116>>,
  <<-12288, 4096, 250, 1024, 217, 73, 72, 116>>,
  <<-11776, -6656, 250, 1024, 187, 217, 72, 191>>,
  <<-11776, -5632, 250, 1024, 187, 217, 72, 191>>,
  <<-11776, -4608, 250, 1024, 187, 217, 72, 191>>,
  <<-11264, -7168, 250, 1024, 187, 217, 72, 191>>,
  <<-11264, -5120, 250, 1024, 187, 217, 72, 191>>,
  <<-11264, -3072, 250, 1024, 187, 217, 72, 191>>,
  <<-11264, -1024, 250, 1024, 187, 217, 72, 191>>,
  <<-11264, 1024, 250, 1024, 217, 73, 72, 116>>,
  <<-10752, -6656, 250, 1024, 187, 217, 72, 191>>,
  <<-10752, -5632, 250, 1024, 187, 217, 72, 191>>,
  <<-10752, -4608, 250, 1024, 187, 217, 72, 191>>,
  <<-10240, -6144, 250, 1024, 187, 217, 72, 191>>,
  <<-10240, -5120, 250, 1024, 187, 217, 72, 191>>,
  <<-10240, -4096, 250, 1024, 187, 217, 72, 191>>,
  <<-10240, -2048, 250, 1024, 187, 217, 72, 192>>,
  <<-10240, 0, 250, 1024, 217, 73, 72, 116>>,
  <<-10240, 2048, 250, 1024, 217, 73, 72, 116>>,
  <<-9728, -5632, 250, 1024, 187, 217, 72, 191>>,
  <<-9728, -4608, 250, 1024, 187, 217, 72, 191>>,
  <<-9728, -3584, 250, 1024, 187, 217, 72, 192>>,
  <<-9216, -7168, 250, 1024, 187, 217, 72, 191>>,
  <<-9216, -5120, 250, 1024, 187, 217, 72, 192>>,
  <<-9216, -4096, 250, 1024, 188, 217, 72, 192>>,
  <<-9216, -3072, 250, 1024, 188, 217, 72, 192>>,
  <<-9216, -1024, 250, 1024, 188, 217, 72, 192>>,
  <<-9216, 1024, 250, 1024, 217, 72, 72, 116>>,
  <<-8704, -5632, 250, 1024, 187, 217, 72, 192>>,
  <<-8704, -4608, 250, 1024, 188, 217, 72, 192>>,
  <<-8704, -3584, 250, 1024, 188, 217, 72, 192>>,
  <<-8192, -8192, 250, 1024, 187, 217, 72, 191>>,
  <<-8192, -6144, 250, 1024, 187, 217, 72, 192>>,
  <<-8192, -5120, 250, 1024, 188, 217, 72, 192>>,
  <<-8192, -4096, 250, 1024, 188, 217, 72, 192>>,
  <<-8192, -2048, 250, 1024, 188, 217, 72, 192>>,
  <<-8192, 4096, 250, 1024, 217, 72, 72, 116>>,
  <<-8192, 8192, 250, 1024, 217, 73, 72, 116>>,
  <<-8192, 12288, 250, 1024, 217, 73, 72, 116>>,
  <<-7680, -5632, 250, 1024, 188, 217, 72, 192>>,
  <<-7680, -4608, 250, 1024, 188, 217, 72, 192>>,
  <<-7680, -3584, 250, 1024, 188, 217, 72, 192>>,
  <<-7680, -2560, 250, 1024, 255, 10, 79, 91>>,
  <<-7168, -5120, 250, 1024, 188, 217, 72, 192>>,
  <<-7168, -4096, 250, 1024, 188, 217, 72, 192>>,
  <<-7168, -3072, 250, 1024, 255, 10, 80, 91>>,
  <<-7168, -1024, 250, 1024, 68, 18, 230, 57>>,
  <<-6656, -5632, 250, 1024, 188, 217, 72, 192>>,
  <<-6656, -4608, 250, 1024, 137, 10, 255, 76>>,
  <<-6656, -3584, 250, 1024, 20, 247, 255, 180>>,
  <<-6656, -2560, 250, 1024, 195, 217, 81, 195>>,
  <<-6144, -6144, 250, 1024, 188, 217, 72, 192>>,
  <<-6144, -5120, 250, 1024, 137, 10, 255, 76>>,
  <<-6144, -4096, 250, 1024, 136, 10, 255, 76>>,
  <<-6144, -3072, 250, 1024, 81, 217, 130, 166>>,
  <<-6144, -2048, 250, 1024, 195, 217, 81, 195>>,
  <<-6144, 2048, 250, 1024, 81, 217, 130, 166>>,
  <<-6144, 6144, 250, 1024, 217, 72, 72, 115>>,
  <<-5632, -5632, 250, 1024, 137, 10, 255, 76>>,
  <<-5632, -4608, 250, 1024, 136, 10, 255, 76>>,
  <<-5632, -3584, 250, 1024, 74, 20, 255, 63>>,
  <<-5632, -2560, 250, 1024, 81, 217, 130, 166>>,
  <<-5632, -1536, 250, 1024, 164, 65, 96, 98>>,
  <<-5120, -5120, 250, 1024, 137, 10, 255, 76>>,
  <<-5120, -3072, 250, 1024, 81, 217, 130, 166>>,
  <<-5120, -2048, 250, 1024, 66, 18, 225, 56>>,
  <<-5120, -1024, 250, 1024, 58, 98, 140, 91>>,
  <<-4608, -5632, 250, 1024, 137, 10, 255, 76>>,
  <<-4608, -4608, 250, 1024, 74, 20, 255, 63>>,
  <<-4608, -3584, 250, 1024, 81, 217, 130, 166>>,
  <<-4608, -2560, 250, 1024, 70, 19, 237, 59>>,
  <<-4608, -1536, 250, 1024, 69, 145, 59, 113>>,
  <<-4096, -12288, 250, 1024, 187, 217, 72, 191>>,
  <<-4096, -8192, 250, 1024, 188, 217, 72, 192>>,
  <<-4096, -6144, 250, 1024, 137, 10, 255, 76>>,
  <<-4096, -4096, 250, 1024, 81, 217, 130, 166>>,
  <<-4096, -3072, 250, 1024, 81, 217, 130, 166>>,
  <<-4096, -2048, 250, 1024, 190, 75, 111, 114>>,
  <<-4096, 4096, 250, 1024, 195, 217, 81, 195>>,
  <<-4096, 8192, 250, 1024, 217, 72, 72, 116>>,
  <<-4096, 12288, 250, 1024, 217, 73, 72, 116>>,
  <<-3584, -2560, 250, 1024, 192, 75, 111, 114>>,
  <<-3584, -1536, 250, 1024, 80, 166, 68, 129>>,
  <<-3072, -5120, 250, 1024, 195, 217, 81, 195>>,
  <<-3072, -3072, 250, 1024, 20, 247, 255, 180>>,
  <<-3072, -2048, 250, 1024, 222, 196, 23, 184>>,
  <<-3072, -1024, 250, 1024, 102, 44, 49, 62>>,
  <<-3072, 1024, 250, 1024, 85, 44, 102, 63>>,
  <<-3072, 3072, 250, 1024, 75, 20, 255, 63>>,
  <<-2560, -2560, 250, 1024, 52, 123, 74, 96>>,
  <<-2048, -6144, 250, 1024, 137, 10, 255, 76>>,
  <<-2048, -4096, 250, 1024, 75, 20, 255, 63>>,
  <<-2048, -3072, 250, 1024, 218, 194, 22, 181>>,
  <<-2048, 6144, 250, 1024, 137, 10, 255, 76>>,
  <<-1024, -5120, 250, 1024, 81, 217, 130, 166>>,
  <<-1024, -3072, 250, 1024, 0, 0, 0, 0>>,
  <<-1024, 3072, 250, 1024, 0, 0, 0, 0>>,
  <<0, -8192, 250, 1024, 81, 217, 130, 166>>,
  <<0, 8192, 250, 1024, 195, 217, 81, 195>>,
  <<0, 12288, 250, 1024, 217, 73, 72, 116>>,
  <<512, -3584, 250, 1024, 178, 70, 104, 106>>,
  <<1024, -5120, 250, 1024, 255, 10, 79, 91>>,
  <<1024, -3072, 250, 1024, 123, 70, 178, 98>>,
  <<1024, 3072, 250, 1024, 178, 70, 104, 106>>,
  <<1024, 5120, 250, 1024, 137, 10, 255, 76>>,
  <<1536, -3584, 250, 1024, 133, 76, 194, 107>>,
  <<1536, -2560, 250, 1024, 79, 37, 87, 55>>,
  <<1536, -512, 250, 1024, 15, 23, 10, 19>>,
  <<1536, 512, 250, 1024, 23, 16, 10, 17>>,
  <<1536, 1536, 250, 1024, 22, 35, 16, 29>>,
  <<2048, -6144, 250, 1024, 255, 10, 78, 91>>,
  <<2048, -4096, 250, 1024, 255, 10, 80, 91>>,
  <<2048, -2048, 250, 1024, 113, 65, 164, 90>>,
  <<2048, -1024, 250, 1024, 159, 62, 93, 95>>,
  <<2048, 0, 250, 1024, 168, 66, 98, 100>>,
  <<2048, 2048, 250, 1024, 164, 65, 95, 98>>,
  <<2048, 6144, 250, 1024, 137, 10, 255, 76>>,
  <<2560, -3584, 250, 1024, 81, 217, 130, 166>>,
  <<2560, -2560, 250, 1024, 81, 217, 130, 166>>,
  <<2560, 512, 250, 1024, 66, 18, 224, 56>>,
  <<2560, 1536, 250, 1024, 17, 216, 223, 157>>,
  <<3072, -3072, 250, 1024, 136, 10, 255, 76>>,
  <<3072, -2048, 250, 1024, 195, 217, 81, 195>>,
  <<3072, -1024, 250, 1024, 195, 217, 81, 195>>,
  <<3072, 1024, 250, 1024, 81, 217, 130, 166>>,
  <<3072, 3072, 250, 1024, 255, 10, 80, 91>>,
  <<3072, 5120, 250, 1024, 137, 10, 255, 76>>,
  <<3584, -3584, 250, 1024, 137, 10, 255, 76>>,
  <<3584, -2560, 250, 1024, 136, 10, 255, 76>>,
  <<3584, 512, 250, 1024, 81, 217, 130, 166>>,
  <<3584, 1536, 250, 1024, 74, 20, 255, 63>>,
  <<4096, -8192, 250, 1024, 217, 72, 72, 116>>,
  <<4096, -4096, 250, 1024, 137, 10, 255, 76>>,
  <<4096, -2048, 250, 1024, 137, 10, 255, 76>>,
  <<4096, 0, 250, 1024, 75, 20, 255, 63>>,
  <<4096, 2048, 250, 1024, 255, 10, 79, 91>>,
  <<4096, 4096, 250, 1024, 255, 10, 78, 91>>,
  <<4096, 6144, 250, 1024, 195, 217, 81, 195>>,
  <<4096, 8192, 250, 1024, 188, 217, 72, 192>>,
  <<4096, 12288, 250, 1024, 187, 217, 72, 191>>,
  <<4608, -1536, 250, 1024, 137, 10, 255, 76>>,
  <<4608, -512, 250, 1024, 137, 10, 255, 76>>,
  <<5120, -5120, 250, 1024, 195, 217, 81, 195>>,
  <<5120, -3072, 250, 1024, 137, 10, 255, 76>>,
  <<5120, -1024, 250, 1024, 137, 10, 255, 76>>,
  <<5120, 1024, 250, 1024, 255, 10, 79, 91>>,
  <<5120, 3072, 250, 1024, 255, 10, 78, 91>>,
  <<5120, 5120, 250, 1024, 81, 217, 130, 166>>,
  <<5120, 7168, 250, 1024, 188, 217, 72, 192>>,
  <<5632, -1536, 250, 1024, 137, 10, 255, 76>>,
  <<5632, -512, 250, 1024, 137, 10, 255, 76>>,
  <<6144, -6144, 250, 1024, 217, 72, 72, 115>>,
  <<6144, -4096, 250, 1024, 195, 217, 81, 195>>,
  <<6144, -2048, 250, 1024, 195, 217, 81, 195>>,
  <<6144, 2048, 250, 1024, 81, 217, 129, 166>>,
  <<6144, 6144, 250, 1024, 188, 217, 72, 192>>,
  <<6656, -1536, 250, 1024, 195, 217, 81, 195>>,
  <<6656, -512, 250, 1024, 195, 217, 81, 195>>,
  <<7168, -5120, 250, 1024, 217, 72, 72, 115>>,
  <<7168, -3072, 250, 1024, 195, 217, 81, 195>>,
  <<7168, -1024, 250, 1024, 195, 217, 81, 195>>,
  <<7168, 1024, 250, 1024, 81, 217, 130, 166>>,
  <<7168, 3072, 250, 1024, 81, 217, 130, 166>>,
  <<7168, 7168, 250, 1024, 188, 217, 72, 192>>,
  <<7680, -1536, 250, 1024, 195, 217, 81, 195>>,
  <<7680, -512, 250, 1024, 195, 217, 81, 195>>,
  <<8192, -8192, 250, 1024, 217, 73, 72, 116>>,
  <<8192, -4096, 250, 1024, 217, 72, 72, 116>>,
  <<8192, -2048, 250, 1024, 217, 72, 72, 115>>,
  <<8192, 0, 250, 1024, 81, 217, 130, 166>>,
  <<8192, 4096, 250, 1024, 188, 217, 72, 192>>,
  <<8192, 6144, 250, 1024, 187, 217, 72, 192>>,
  <<8192, 8192, 250, 1024, 187, 217, 72, 191>>,
  <<8192, 12288, 250, 1024, 187, 217, 72, 191>>,
  <<8704, 2560, 250, 1024, 188, 217, 72, 192>>,
  <<8704, 3584, 250, 1024, 188, 217, 72, 192>>,
  <<8704, 4608, 250, 1024, 188, 217, 72, 192>>,
  <<8704, 5632, 250, 1024, 187, 217, 72, 192>>,
  <<9216, -3072, 250, 1024, 217, 72, 72, 116>>,
  <<9216, -1024, 250, 1024, 217, 72, 72, 116>>,
  <<9216, 3072, 250, 1024, 188, 217, 72, 192>>,
  <<9216, 5120, 250, 1024, 187, 217, 72, 192>>,
  <<9216, 7168, 250, 1024, 187, 217, 72, 191>>,
  <<9728, 2560, 250, 1024, 188, 217, 72, 192>>,
  <<9728, 3584, 250, 1024, 187, 217, 72, 192>>,
  <<9728, 4608, 250, 1024, 187, 217, 72, 191>>,
  <<9728, 5632, 250, 1024, 187, 217, 72, 191>>,
  <<10240, -6144, 250, 1024, 217, 73, 72, 116>>,
  <<10240, -2048, 250, 1024, 217, 73, 72, 116>>,
  <<10240, 2048, 250, 1024, 187, 217, 72, 192>>,
  <<10240, 6144, 250, 1024, 187, 217, 72, 191>>,
  <<10752, 2560, 250, 1024, 187, 217, 72, 191>>,
  <<10752, 3584, 250, 1024, 187, 217, 72, 191>>,
  <<10752, 4608, 250, 1024, 187, 217, 72, 191>>,
  <<10752, 5632, 250, 1024, 187, 217, 72, 191>>,
  <<11264, -3072, 250, 1024, 217, 73, 72, 116>>,
  <<11264, 5120, 250, 1024, 187, 217, 72, 191>>,
  <<11264, 7168, 250, 1024, 187, 217, 72, 191>>,
  <<11776, 2560, 250, 1024, 187, 217, 72, 191>>,
  <<11776, 3584, 250, 1024, 187, 217, 72, 191>>,
  <<11776, 4608, 250, 1024, 187, 217, 72, 191>>,
  <<11776, 5632, 250, 1024, 187, 217, 72, 191>>,
  <<12288, -8192, 250, 1024, 217, 73, 72, 116>>,
  <<12288, -4096, 250, 1024, 217, 73, 72, 116>>,
  <<12288, -2048, 250, 1024, 217, 73, 72, 116>>,
  <<12288, 0, 250, 1024, 187, 217, 72, 191>>,
  <<12288, 4096, 250, 1024, 187, 217, 72, 191>>,
  <<12288, 6144, 250, 1024, 187, 217, 72, 191>>,
  <<12288, 8192, 250, 1024, 187, 217, 72, 191>>,
  <<12288, 12288, 250, 1024, 255, 10, 79, 91>>,
  <<12800, 6656, 250, 1024, 187, 217, 72, 191>>,
  <<12800, 7680, 250, 1024, 187, 217, 72, 191>>,
  <<13312, -5120, 250, 1024, 217, 73, 72, 116>>,
  <<13312, -1024, 250, 1024, 217, 73, 72, 116>>,
  <<13312, 3072, 250, 1024, 187, 217, 72, 191>>,
  <<13312, 5120, 250, 1024, 187, 217, 72, 191>>,
  <<13312, 7168, 250, 1024, 187, 217, 72, 191>>,
  <<13824, 6656, 250, 1024, 187, 217, 72, 191>>,
  <<13824, 7680, 250, 1024, 187, 217, 72, 191>>,
  <<14336, -2048, 250, 1024, 217, 73, 72, 116>>,
  <<14336, 2048, 250, 1024, 187, 217, 72, 191>>,
  <<14336, 6144, 250, 1024, 187, 217, 72, 191>>,
  <<14848, 6656, 250, 1024, 187, 217, 72, 191>>,
  <<14848, 7680, 250, 1024, 255, 10, 80, 91>>,
  <<15360, -1024, 250, 1024, 217, 73, 72, 116>>,
  <<15360, 5120, 250, 1024, 187, 217, 72, 191>>,
  <<15360, 7168, 250, 1024, 255, 10, 80, 91>>,
  <<15872, 6656, 250, 1024, 255, 10, 79, 91>>,
  <<15872, 7680, 250, 1024, 255, 10, 79, 91>>,
  <<16384, -4096, 250, 1024, 136, 10, 255, 76>>,
  <<16384, 4096, 250, 1024, 255, 10, 80, 91>>,
  <<17408, -3072, 250, 1024, 136, 10, 255, 76>>,
  <<17408, 5120, 250, 1024, 255, 10, 79, 91>>,
  <<18432, -2048, 250, 1024, 136, 10, 255, 76>>,
  <<18432, 6144, 250, 1024, 255, 10, 79, 91>>,
  <<21504, -1024, 250, 1024, 137, 10, 255, 76>>,
  <<21504, 7168, 250, 1024, 255, 10, 79, 91>>,
  <<-28672, -12288, 250, 2048, 255, 10, 79, 91>>,
  <<-28672, -4096, 250, 2048, 255, 10, 79, 91>>,
  <<-20480, -12288, 250, 2048, 255, 10, 79, 91>>,
  <<-20480, -8192, 250, 2048, 255, 10, 79, 91>>,
  <<-20480, -4096, 250, 2048, 255, 10, 79, 91>>,
  <<-20480, 0, 250, 2048, 136, 10, 255, 76>>,
  <<-15872, -7680, 250, 2048, 255, 10, 79, 91>>,
  <<-15872, -6656, 250, 2048, 255, 10, 79, 91>>,
  <<-15360, -7168, 250, 2048, 255, 10, 80, 91>>,
  <<-15360, -5120, 250, 2048, 187, 217, 72, 191>>,
  <<-15360, -3072, 250, 2048, 187, 217, 72, 191>>,
  <<-15360, -1024, 250, 2048, 187, 217, 72, 191>>,
  <<-15360, 1024, 250, 2048, 217, 73, 72, 116>>,
  <<-14848, -7680, 250, 2048, 255, 10, 80, 91>>,
  <<-14848, -6656, 250, 2048, 187, 217, 72, 191>>,
  <<-14336, -6144, 250, 2048, 187, 217, 72, 191>>,
  <<-14336, -2048, 250, 2048, 187, 217, 72, 191>>,
  <<-14336, 2048, 250, 2048, 217, 73, 72, 116>>,
  <<-13824, -7680, 250, 2048, 187, 217, 72, 191>>,
  <<-13824, -6656, 250, 2048, 187, 217, 72, 191>>,
  <<-13824, -5632, 250, 2048, 187, 217, 72, 191>>,
  <<-13312, -7168, 250, 2048, 187, 217, 72, 191>>,
  <<-13312, -5120, 250, 2048, 187, 217, 72, 191>>,
  <<-13312, -3072, 250, 2048, 187, 217, 72, 191>>,
  <<-13312, -1024, 250, 2048, 187, 217, 72, 191>>,
  <<-13312, 1024, 250, 2048, 217, 73, 72, 116>>,
  <<-12800, -7680, 250, 2048, 187, 217, 72, 191>>,
  <<-12800, -6656, 250, 2048, 187, 217, 72, 191>>,
  <<-12800, -5632, 250, 2048, 187, 217, 72, 191>>,
  <<-12288, -12288, 250, 2048, 255, 10, 79, 91>>,
  <<-12288, -8192, 250, 2048, 187, 217, 72, 191>>,
  <<-12288, -6144, 250, 2048, 187, 217, 72, 191>>,
  <<-12288, -4096, 250, 2048, 187, 217, 72, 191>>,
  <<-12288, -2048, 250, 2048, 187, 217, 72, 191>>,
  <<-12288, 0, 250, 2048, 217, 73, 72, 116>>,
  <<-12288, 4096, 250, 2048, 217, 73, 72, 116>>,
  <<-11776, -6656, 250, 2048, 187, 217, 72, 191>>,
  <<-11776, -5632, 250, 2048, 187, 217, 72, 191>>,
  <<-11776, -4608, 250, 2048, 187, 217, 72, 191>>,
  <<-11264, -7168, 250, 2048, 187, 217, 72, 191>>,
  <<-11264, -5120, 250, 2048, 187, 217, 72, 191>>,
  <<-11264, -3072, 250, 2048, 187, 217, 72, 191>>,
  <<-11264, -1024, 250, 2048, 187, 217, 72, 191>>,
  <<-11264, 1024, 250, 2048, 217, 73, 72, 116>>,
  <<-10752, -6656, 250, 2048, 187, 217, 72, 191>>,
  <<-10752, -5632, 250, 2048, 187, 217, 72, 191>>,
  <<-10752, -4608, 250, 2048, 187, 217, 72, 191>>,
  <<-10240, -6144, 250, 2048, 187, 217, 72, 191>>,
  <<-10240, -5120, 250, 2048, 187, 217, 72, 191>>,
  <<-10240, -4096, 250, 2048, 187, 217, 72, 191>>,
  <<-10240, -2048, 250, 2048, 187, 217, 72, 192>>,
  <<-10240, 0, 250, 2048, 217, 73, 72, 116>>,
  <<-10240, 2048, 250, 2048, 217, 73, 72, 116>>,
  <<-9728, -5632, 250, 2048, 187, 217, 72, 191>>,
  <<-9728, -4608, 250, 2048, 187, 217, 72, 191>>,
  <<-9728, -3584, 250, 2048, 187, 217, 72, 192>>,
  <<-9216, -7168, 250, 2048, 187, 217, 72, 191>>,
  <<-9216, -5120, 250, 2048, 187, 217, 72, 192>>,
  <<-9216, -4096, 250, 2048, 188, 217, 72, 192>>,
  <<-9216, -3072, 250, 2048, 188, 217, 72, 192>>,
  <<-9216, -1024, 250, 2048, 188, 217, 72, 192>>,
  <<-9216, 1024, 250, 2048, 217, 72, 72, 116>>,
  <<-8704, -5632, 250, 2048, 187, 217, 72, 192>>,
  <<-8704, -4608, 250, 2048, 188, 217, 72, 192>>,
  <<-8704, -3584, 250, 2048, 188, 217, 72, 192>>,
  <<-8192, -8192, 250, 2048, 187, 217, 72, 191>>,
  <<-8192, -6144, 250, 2048, 187, 217, 72, 192>>,
  <<-8192, -5120, 250, 2048, 188, 217, 72, 192>>,
  <<-8192, -4096, 250, 2048, 188, 217, 72, 192>>,
  <<-8192, -2048, 250, 2048, 188, 217, 72, 192>>,
  <<-8192, 4096, 250, 2048, 217, 72, 72, 116>>,
  <<-8192, 8192, 250, 2048, 217, 73, 72, 116>>,
  <<-8192, 12288, 250, 2048, 217, 73, 72, 116>>,
  <<-7680, -5632, 250, 2048, 188, 217, 72, 192>>,
  <<-7680, -4608, 250, 2048, 188, 217, 72, 192>>,
  <<-7680, -3584, 250, 2048, 188, 217, 72, 192>>,
  <<-7680, -2560, 250, 2048, 255, 10, 79, 91>>,
  <<-7168, -5120, 250, 2048, 188, 217, 72, 192>>,
  <<-7168, -4096, 250, 2048, 188, 217, 72, 192>>,
  <<-7168, -3072, 250, 2048, 255, 10, 80, 91>>,
  <<-7168, -1024, 250, 2048, 61, 16, 204, 51>>,
  <<-6656, -5632, 250, 2048, 188, 217, 72, 192>>,
  <<-6656, -4608, 250, 2048, 137, 10, 255, 76>>,
  <<-6656, -3584, 250, 2048, 19, 240, 247, 175>>,
  <<-6656, -2560, 250, 2048, 185, 206, 77, 185>>,
  <<-6144, -6144, 250, 2048, 188, 217, 72, 192>>,
  <<-6144, -5120, 250, 2048, 137, 10, 255, 76>>,
  <<-6144, -4096, 250, 2048, 136, 10, 255, 76>>,
  <<-6144, -3072, 250, 2048, 79, 210, 126, 161>>,
  <<-6144, -2048, 250, 2048, 182, 202, 76, 182>>,
  <<-6144, 2048, 250, 2048, 76, 202, 121, 155>>,
  <<-6144, 6144, 250, 2048, 217, 72, 72, 115>>,
  <<-5632, -5632, 250, 2048, 137, 10, 255, 76>>,
  <<-5632, -4608, 250, 2048, 136, 10, 255, 76>>,
  <<-5632, -3584, 250, 2048, 73, 20, 251, 62>>,
  <<-5632, -2560, 250, 2048, 78, 209, 125, 160>>,
  <<-5632, -1536, 250, 2048, 143, 56, 83, 85>>,
  <<-5120, -5120, 250, 2048, 137, 10, 255, 76>>,
  <<-5120, -3072, 250, 2048, 79, 212, 127, 163>>,
  <<-5120, -2048, 250, 2048, 58, 16, 200, 49>>,
  <<-5120, -1024, 250, 2048, 49, 83, 118, 77>>,
  <<-4608, -5632, 250, 2048, 137, 10, 255, 76>>,
  <<-4608, -4608, 250, 2048, 74, 20, 254, 63>>,
  <<-4608, -3584, 250, 2048, 80, 214, 129, 164>>,
  <<-4608, -2560, 250, 2048, 62, 17, 211, 52>>,
  <<-4608, -1536, 250, 2048, 59, 123, 50, 96>>,
  <<-4096, -12288, 250, 2048, 187, 217, 72, 191>>,
  <<-4096, -8192, 250, 2048, 188, 217, 72, 192>>,
  <<-4096, -6144, 250, 2048, 137, 10, 255, 76>>,
  <<-4096, -4096, 250, 2048, 81, 216, 129, 165>>,
  <<-4096, -3072, 250, 2048, 79, 211, 126, 161>>,
  <<-4096, -2048, 250, 2048, 169, 66, 98, 101>>,
  <<-4096, 4096, 250, 2048, 194, 216, 81, 194>>,
  <<-4096, 8192, 250, 2048, 217, 72, 72, 116>>,
  <<-4096, 12288, 250, 2048, 217, 73, 72, 116>>,
  <<-3584, -2560, 250, 2048, 170, 67, 99, 101>>,
  <<-3584, -1536, 250, 2048, 69, 144, 59, 112>>,
  <<-3072, -5120, 250, 2048, 194, 216, 81, 194>>,
  <<-3072, -3072, 250, 2048, 18, 225, 232, 164>>,
  <<-3072, -2048, 250, 2048, 196, 174, 20, 163>>,
  <<-3072, -1024, 250, 2048, 80, 35, 39, 49>>,
  <<-3072, 1024, 250, 2048, 67, 35, 80, 49>>,
  <<-3072, 3072, 250, 2048, 68, 18, 232, 58>>,
  <<-2560, -2560, 250, 2048, 42, 102, 61, 79>>,
  <<-2048, -6144, 250, 2048, 137, 10, 255, 76>>,
  <<-2048, -4096, 250, 2048, 70, 18, 236, 59>>,
  <<-2048, -3072, 250, 2048, 192, 171, 20, 160>>,
  <<-2048, 6144, 250, 2048, 137, 10, 255, 76>>,
  <<-1024, -5120, 250, 2048, 77, 206, 124, 158>>,
  <<-1024, -3072, 250, 2048, 0, 0, 0, 0>>,
  <<-1024, 3072, 250, 2048, 0, 0, 0, 0>>,
  <<0, -8192, 250, 2048, 81, 217, 130, 166>>,
  <<0, 8192, 250, 2048, 195, 217, 81, 195>>,
  <<0, 12288, 250, 2048, 217, 73, 72, 116>>,
  <<512, -3584, 250, 2048, 156, 62, 91, 93>>,
  <<1024, -5120, 250, 2048, 255, 10, 79, 91>>,
  <<1024, -3072, 250, 2048, 108, 62, 156, 86>>,
  <<1024, 3072, 250, 2048, 156, 62, 92, 93>>,
  <<1024, 5120, 250, 2048, 137, 10, 255, 76>>,
  <<1536, -3584, 250, 2048, 118, 68, 172, 95>>,
  <<1536, -2560, 250, 2048, 59, 28, 66, 42>>,
  <<1536, -512, 250, 2048, 1, 1, 1, 1>>,
  <<1536, 512, 250, 2048, 1, 1, 1, 1>>,
  <<1536, 1536, 250, 2048, 9, 14, 6, 11>>,
  <<2048, -6144, 250, 2048, 255, 10, 78, 91>>,
  <<2048, -4096, 250, 2048, 255, 10, 80, 91>>,
  <<2048, -2048, 250, 2048, 98, 56, 142, 78>>,
  <<2048, -1024, 250, 2048, 137, 54, 80, 82>>,
  <<2048, 0, 250, 2048, 146, 58, 85, 87>>,
  <<2048, 2048, 250, 2048, 142, 56, 83, 85>>,
  <<2048, 6144, 250, 2048, 137, 10, 255, 76>>,
  <<2560, -3584, 250, 2048, 76, 203, 122, 155>>,
  <<2560, -2560, 250, 2048, 74, 198, 119, 152>>,
  <<2560, 512, 250, 2048, 59, 16, 199, 49>>,
  <<2560, 1536, 250, 2048, 15, 191, 198, 139>>,
  <<3072, -3072, 250, 2048, 136, 10, 255, 76>>,
  <<3072, -2048, 250, 2048, 180, 200, 75, 180>>,
  <<3072, -1024, 250, 2048, 176, 196, 73, 176>>,
  <<3072, 1024, 250, 2048, 73, 196, 117, 150>>,
  <<3072, 3072, 250, 2048, 255, 10, 80, 91>>,
  <<3072, 5120, 250, 2048, 137, 10, 255, 76>>,
  <<3584, -3584, 250, 2048, 137, 10, 255, 76>>,
  <<3584, -2560, 250, 2048, 136, 10, 255, 76>>,
  <<3584, 512, 250, 2048, 75, 200, 120, 153>>,
  <<3584, 1536, 250, 2048, 69, 19, 237, 59>>,
  <<4096, -8192, 250, 2048, 217, 72, 72, 116>>,
  <<4096, -4096, 250, 2048, 137, 10, 255, 76>>,
  <<4096, -2048, 250, 2048, 137, 10, 255, 76>>,
  <<4096, 0, 250, 2048, 70, 19, 238, 59>>,
  <<4096, 2048, 250, 2048, 255, 10, 79, 91>>,
  <<4096, 4096, 250, 2048, 255, 10, 78, 91>>,
  <<4096, 6144, 250, 2048, 195, 217, 81, 195>>,
  <<4096, 8192, 250, 2048, 188, 217, 72, 192>>,
  <<4096, 12288, 250, 2048, 187, 217, 72, 191>>,
  <<4608, -1536, 250, 2048, 137, 10, 255, 76>>,
  <<4608, -512, 250, 2048, 137, 10, 255, 76>>,
  <<5120, -5120, 250, 2048, 195, 217, 81, 195>>,
  <<5120, -3072, 250, 2048, 137, 10, 255, 76>>,
  <<5120, -1024, 250, 2048, 137, 10, 255, 76>>,
  <<5120, 1024, 250, 2048, 255, 10, 79, 91>>,
  <<5120, 3072, 250, 2048, 255, 10, 78, 91>>,
  <<5120, 5120, 250, 2048, 81, 217, 130, 166>>,
  <<5120, 7168, 250, 2048, 188, 217, 72, 192>>,
  <<5632, -1536, 250, 2048, 137, 10, 255, 76>>,
  <<5632, -512, 250, 2048, 137, 10, 255, 76>>,
  <<6144, -6144, 250, 2048, 217, 72, 72, 115>>,
  <<6144, -4096, 250, 2048, 195, 217, 81, 195>>,
  <<6144, -2048, 250, 2048, 195, 217, 81, 195>>,
  <<6144, 2048, 250, 2048, 81, 217, 129, 166>>,
  <<6144, 6144, 250, 2048, 188, 217, 72, 192>>,
  <<6656, -1536, 250, 2048, 195, 217, 81, 195>>,
  <<6656, -512, 250, 2048, 195, 217, 81, 195>>,
  <<7168, -5120, 250, 2048, 217, 72, 72, 115>>,
  <<7168, -3072, 250, 2048, 195, 217, 81, 195>>,
  <<7168, -1024, 250, 2048, 195, 217, 81, 195>>,
  <<7168, 1024, 250, 2048, 81, 217, 130, 166>>,
  <<7168, 3072, 250, 2048, 81, 217, 130, 166>>,
  <<7168, 7168, 250, 2048, 188, 217, 72, 192>>,
  <<7680, -1536, 250, 2048, 195, 217, 81, 195>>,
  <<7680, -512, 250, 2048, 195, 217, 81, 195>>,
  <<8192, -8192, 250, 2048, 217, 73, 72, 116>>,
  <<8192, -4096, 250, 2048, 217, 72, 72, 116>>,
  <<8192, -2048, 250, 2048, 217, 72, 72, 115>>,
  <<8192, 0, 250, 2048, 81, 217, 130, 166>>,
  <<8192, 4096, 250, 2048, 188, 217, 72, 192>>,
  <<8192, 6144, 250, 2048, 187, 217, 72, 192>>,
  <<8192, 8192, 250, 2048, 187, 217, 72, 191>>,
  <<8192, 12288, 250, 2048, 187, 217, 72, 191>>,
  <<8704, 2560, 250, 2048, 188, 217, 72, 192>>,
  <<8704, 3584, 250, 2048, 188, 217, 72, 192>>,
  <<8704, 4608, 250, 2048, 188, 217, 72, 192>>,
  <<8704, 5632, 250, 2048, 187, 217, 72, 192>>,
  <<9216, -3072, 250, 2048, 217, 72, 72, 116>>,
  <<9216, -1024, 250, 2048, 217, 72, 72, 116>>,
  <<9216, 3072, 250, 2048, 188, 217, 72, 192>>,
  <<9216, 5120, 250, 2048, 187, 217, 72, 192>>,
  <<9216, 7168, 250, 2048, 187, 217, 72, 191>>,
  <<9728, 2560, 250, 2048, 188, 217, 72, 192>>,
  <<9728, 3584, 250, 2048, 187, 217, 72, 192>>,
  <<9728, 4608, 250, 2048, 187, 217, 72, 191>>,
  <<9728, 5632, 250, 2048, 187, 217, 72, 191>>,
  <<10240, -6144, 250, 2048, 217, 73, 72, 116>>,
  <<10240, -2048, 250, 2048, 217, 73, 72, 116>>,
  <<10240, 2048, 250, 2048, 187, 217, 72, 192>>,
  <<10240, 6144, 250, 2048, 187, 217, 72, 191>>,
  <<10752, 2560, 250, 2048, 187, 217, 72, 191>>,
  <<10752, 3584, 250, 2048, 187, 217, 72, 191>>,
  <<10752, 4608, 250, 2048, 187, 217, 72, 191>>,
  <<10752, 5632, 250, 2048, 187, 217, 72, 191>>,
  <<11264, -3072, 250, 2048, 217, 73, 72, 116>>,
  <<11264, 5120, 250, 2048, 187, 217, 72, 191>>,
  <<11264, 7168, 250, 2048, 187, 217, 72, 191>>,
  <<11776, 2560, 250, 2048, 187, 217, 72, 191>>,
  <<11776, 3584, 250, 2048, 187, 217, 72, 191>>,
  <<11776, 4608, 250, 2048, 187, 217, 72, 191>>,
  <<11776, 5632, 250, 2048, 187, 217, 72, 191>>,
  <<12288, -8192, 250, 2048, 217, 73, 72, 116>>,
  <<12288, -4096, 250, 2048, 217, 73, 72, 116>>,
  <<12288, -2048, 250, 2048, 217, 73, 72, 116>>,
  <<12288, 0, 250, 2048, 187, 217, 72, 191>>,
  <<12288, 4096, 250, 2048, 187, 217, 72, 191>>,
  <<12288, 6144, 250, 2048, 187, 217, 72, 191>>,
  <<12288, 8192, 250, 2048, 187, 217, 72, 191>>,
  <<12288, 12288, 250, 2048, 255, 10, 79, 91>>,
  <<12800, 6656, 250, 2048, 187, 217, 72, 191>>,
  <<12800, 7680, 250, 2048, 187, 217, 72, 191>>,
  <<13312, -5120, 250, 2048, 217, 73, 72, 116>>,
  <<13312, -1024, 250, 2048, 217, 73, 72, 116>>,
  <<13312, 3072, 250, 2048, 187, 217, 72, 191>>,
  <<13312, 5120, 250, 2048, 187, 217, 72, 191>>,
  <<13312, 7168, 250, 2048, 187, 217, 72, 191>>,
  <<13824, 6656, 250, 2048, 187, 217, 72, 191>>,
  <<13824, 7680, 250, 2048, 187, 217, 72, 191>>,
  <<14336, -2048, 250, 2048, 217, 73, 72, 116>>,
  <<14336, 2048, 250, 2048, 187, 217, 72, 191>>,
  <<14336, 6144, 250, 2048, 187, 217, 72, 191>>,
  <<14848, 6656, 250, 2048, 187, 217, 72, 191>>,
  <<14848, 7680, 250, 2048, 255, 10, 80, 91>>,
  <<15360, -1024, 250, 2048, 217, 73, 72, 116>>,
  <<15360, 5120, 250, 2048, 187, 217, 72, 191>>,
  <<15360, 7168, 250, 2048, 255, 10, 80, 91>>,
  <<15872, 6656, 250, 2048, 255, 10, 79, 91>>,
  <<15872, 7680, 250, 2048, 255, 10, 79, 91>>,
  <<16384, -4096, 250, 2048, 136, 10, 255, 76>>,
  <<16384, 4096, 250, 2048, 255, 10, 80, 91>>,
  <<17408, -3072, 250, 2048, 136, 10, 255, 76>>,
  <<17408, 5120, 250, 2048, 255, 10, 79, 91>>,
  <<18432, -2048, 250, 2048, 136, 10, 255, 76>>,
  <<18432, 6144, 250, 2048, 255, 10, 79, 91>>,
  <<21504, -1024, 250, 2048, 137, 10, 255, 76>>,
  <<21504, 7168, 250, 2048, 255, 10, 79, 91>>,
  <<-28672, -12288, 250, 4096, 255, 10, 79, 91>>,
  <<-28672, -4096, 250, 4096, 255, 10, 79, 91>>,
  <<-20480, -12288, 250, 4096, 255, 10, 79, 91>>,
  <<-20480, -8192, 250, 4096, 255, 10, 79, 91>>,
  <<-20480, -4096, 250, 4096, 255, 10, 79, 91>>,
  <<-20480, 0, 250, 4096, 136, 10, 255, 76>>,
  <<-15872, -7680, 250, 4096, 255, 10, 79, 91>>,
  <<-15872, -6656, 250, 4096, 255, 10, 79, 91>>,
  <<-15360, -7168, 250, 4096, 255, 10, 80, 91>>,
  <<-15360, -5120, 250, 4096, 187, 217, 72, 191>>,
  <<-15360, -3072, 250, 4096, 187, 217, 72, 191>>,
  <<-15360, -1024, 250, 4096, 187, 217, 72, 191>>,
  <<-15360, 1024, 250, 4096, 217, 73, 72, 116>>,
  <<-14848, -7680, 250, 4096, 255, 10, 80, 91>>,
  <<-14848, -6656, 250, 4096, 187, 217, 72, 191>>,
  <<-14336, -6144, 250, 4096, 187, 217, 72, 191>>,
  <<-14336, -2048, 250, 4096, 187, 217, 72, 191>>,
  <<-14336, 2048, 250, 4096, 217, 73, 72, 116>>,
  <<-13824, -7680, 250, 4096, 187, 217, 72, 191>>,
  <<-13824, -6656, 250, 4096, 187, 217, 72, 191>>,
  <<-13824, -5632, 250, 4096, 187, 217, 72, 191>>,
  <<-13312, -7168, 250, 4096, 187, 217, 72, 191>>,
  <<-13312, -5120, 250, 4096, 187, 217, 72, 191>>,
  <<-13312, -3072, 250, 4096, 187, 217, 72, 191>>,
  <<-13312, -1024, 250, 4096, 187, 217, 72, 191>>,
  <<-13312, 1024, 250, 4096, 217, 73, 72, 116>>,
  <<-12800, -7680, 250, 4096, 187, 217, 72, 191>>,
  <<-12800, -6656, 250, 4096, 187, 217, 72, 191>>,
  <<-12800, -5632, 250, 4096, 187, 217, 72, 191>>,
  <<-12288, -12288, 250, 4096, 255, 10, 79, 91>>,
  <<-12288, -8192, 250, 4096, 187, 217, 72, 191>>,
  <<-12288, -6144, 250, 4096, 187, 217, 72, 191>>,
  <<-12288, -4096, 250, 4096, 187, 217, 72, 191>>,
  <<-12288, -2048, 250, 4096, 187, 217, 72, 191>>,
  <<-12288, 0, 250, 4096, 217, 73, 72, 116>>,
  <<-12288, 4096, 250, 4096, 217, 73, 72, 116>>,
  <<-11776, -6656, 250, 4096, 187, 217, 72, 191>>,
  <<-11776, -5632, 250, 4096, 187, 217, 72, 191>>,
  <<-11776, -4608, 250, 4096, 187, 217, 72, 191>>,
  <<-11264, -7168, 250, 4096, 187, 217, 72, 191>>,
  <<-11264, -5120, 250, 4096, 187, 217, 72, 191>>,
  <<-11264, -3072, 250, 4096, 187, 217, 72, 191>>,
  <<-11264, -1024, 250, 4096, 187, 217, 72, 191>>,
  <<-11264, 1024, 250, 4096, 217, 73, 72, 116>>,
  <<-10752, -6656, 250, 4096, 187, 217, 72, 191>>,
  <<-10752, -5632, 250, 4096, 187, 217, 72, 191>>,
  <<-10752, -4608, 250, 4096, 187, 217, 72, 191>>,
  <<-10240, -6144, 250, 4096, 187, 217, 72, 191>>,
  <<-10240, -5120, 250, 4096, 187, 217, 72, 191>>,
  <<-10240, -4096, 250, 4096, 187, 217, 72, 191>>,
  <<-10240, -2048, 250, 4096, 187, 217, 72, 192>>,
  <<-10240, 0, 250, 4096, 217, 73, 72, 116>>,
  <<-10240, 2048, 250, 4096, 217, 73, 72, 116>>,
  <<-9728, -5632, 250, 4096, 187, 217, 72, 191>>,
  <<-9728, -4608, 250, 4096, 187, 217, 72, 191>>,
  <<-9728, -3584, 250, 4096, 187, 217, 72, 192>>,
  <<-9216, -7168, 250, 4096, 187, 217, 72, 191>>,
  <<-9216, -5120, 250, 4096, 187, 217, 72, 192>>,
  <<-9216, -4096, 250, 4096, 188, 217, 72, 192>>,
  <<-9216, -3072, 250, 4096, 188, 217, 72, 192>>,
  <<-9216, -1024, 250, 4096, 188, 217, 72, 192>>,
  <<-9216, 1024, 250, 4096, 217, 72, 72, 116>>,
  <<-8704, -5632, 250, 4096, 187, 217, 72, 192>>,
  <<-8704, -4608, 250, 4096, 188, 217, 72, 192>>,
  <<-8704, -3584, 250, 4096, 188, 217, 72, 192>>,
  <<-8192, -8192, 250, 4096, 187, 217, 72, 191>>,
  <<-8192, -6144, 250, 4096, 187, 217, 72, 192>>,
  <<-8192, -5120, 250, 4096, 188, 217, 72, 192>>,
  <<-8192, -4096, 250, 4096, 188, 217, 72, 192>>,
  <<-8192, -2048, 250, 4096, 188, 217, 72, 192>>,
  <<-8192, 4096, 250, 4096, 217, 72, 72, 116>>,
  <<-8192, 8192, 250, 4096, 217, 73, 72, 116>>,
  <<-8192, 12288, 250, 4096, 217, 73, 72, 116>>,
  <<-7680, -5632, 250, 4096, 188, 217, 72, 192>>,
  <<-7680, -4608, 250, 4096, 188, 217, 72, 192>>,
  <<-7680, -3584, 250, 4096, 188, 217, 72, 192>>,
  <<-7680, -2560, 250, 4096, 239, 9, 75, 85>>,
  <<-7168, -5120, 250, 4096, 188, 217, 72, 192>>,
  <<-7168, -4096, 250, 4096, 188, 217, 72, 192>>,
  <<-7168, -3072, 250, 4096, 238, 9, 74, 85>>,
  <<-7168, -1024, 250, 4096, 53, 14, 179, 44>>,
  <<-6656, -5632, 250, 4096, 188, 217, 72, 192>>,
  <<-6656, -4608, 250, 4096, 135, 10, 252, 75>>,
  <<-6656, -3584, 250, 4096, 17, 215, 222, 157>>,
  <<-6656, -2560, 250, 4096, 165, 184, 69, 165>>,
  <<-6144, -6144, 250, 4096, 188, 217, 72, 192>>,
  <<-6144, -5120, 250, 4096, 137, 10, 255, 76>>,
  <<-6144, -4096, 250, 4096, 129, 9, 242, 72>>,
  <<-6144, -3072, 250, 4096, 70, 188, 113, 145>>,
  <<-6144, -2048, 250, 4096, 163, 181, 68, 162>>,
  <<-6144, 2048, 250, 4096, 68, 181, 108, 139>>,
  <<-6144, 6144, 250, 4096, 217, 72, 72, 115>>,
  <<-5632, -5632, 250, 4096, 137, 10, 255, 76>>,
  <<-5632, -4608, 250, 4096, 132, 9, 246, 73>>,
  <<-5632, -3584, 250, 4096, 66, 18, 225, 56>>,
  <<-5632, -2560, 250, 4096, 70, 187, 112, 143>>,
  <<-5632, -1536, 250, 4096, 121, 48, 71, 72>>,
  <<-5120, -5120, 250, 4096, 135, 10, 251, 75>>,
  <<-5120, -3072, 250, 4096, 71, 191, 114, 146>>,
  <<-5120, -2048, 250, 4096, 51, 14, 174, 43>>,
  <<-5120, -1024, 250, 4096, 40, 68, 97, 63>>,
  <<-4608, -5632, 250, 4096, 137, 10, 255, 76>>,
  <<-4608, -4608, 250, 4096, 67, 18, 228, 56>>,
  <<-4608, -3584, 250, 4096, 72, 193, 116, 148>>,
  <<-4608, -2560, 250, 4096, 55, 15, 186, 46>>,
  <<-4608, -1536, 250, 4096, 49, 102, 41, 79>>,
  <<-4096, -12288, 250, 4096, 187, 217, 72, 191>>,
  <<-4096, -8192, 250, 4096, 188, 217, 72, 192>>,
  <<-4096, -6144, 250, 4096, 137, 10, 255, 76>>,
  <<-4096, -4096, 250, 4096, 73, 194, 116, 149>>,
  <<-4096, -3072, 250, 4096, 71, 189, 113, 145>>,
  <<-4096, -2048, 250, 4096, 147, 58, 86, 88>>,
  <<-4096, 4096, 250, 4096, 174, 194, 73, 174>>,
  <<-4096, 8192, 250, 4096, 217, 72, 72, 116>>,
  <<-4096, 12288, 250, 4096, 217, 73, 72, 116>>,
  <<-3584, -2560, 250, 4096, 148, 58, 86, 88>>,
  <<-3584, -1536, 250, 4096, 59, 123, 50, 95>>,
  <<-3072, -5120, 250, 4096, 175, 195, 73, 175>>,
  <<-3072, -3072, 250, 4096, 16, 201, 207, 146>>,
  <<-3072, -2048, 250, 4096, 171, 151, 18, 142>>,
  <<-3072, -1024, 250, 4096, 58, 25, 28, 35>>,
  <<-3072, 1024, 250, 4096, 49, 25, 58, 36>>,
  <<-3072, 3072, 250, 4096, 61, 16, 207, 51>>,
  <<-2560, -2560, 250, 4096, 33, 80, 48, 62>>,
  <<-2048, -6144, 250, 4096, 137, 10, 255, 76>>,
  <<-2048, -4096, 250, 4096, 62, 16, 210, 52>>,
  <<-2048, -3072, 250, 4096, 167, 148, 17, 139>>,
  <<-2048, 6144, 250, 4096, 137, 10, 255, 76>>,
  <<-1024, -5120, 250, 4096, 69, 185, 111, 142>>,
  <<-1024, -3072, 250, 4096, 0, 0, 0, 0>>,
  <<-1024, 3072, 250, 4096, 0, 0, 0, 0>>,
  <<0, -8192, 250, 4096, 81, 217, 130, 166>>,
  <<0, 8192, 250, 4096, 195, 217, 81, 195>>,
  <<0, 12288, 250, 4096, 217, 73, 72, 116>>,
  <<512, -3584, 250, 4096, 135, 53, 79, 80>>,
  <<1024, -5120, 250, 4096, 251, 10, 78, 90>>,
  <<1024, -3072, 250, 4096, 93, 53, 135, 74>>,
  <<1024, 3072, 250, 4096, 135, 53, 79, 80>>,
  <<1024, 5120, 250, 4096, 135, 10, 251, 75>>,
  <<1536, -3584, 250, 4096, 103, 59, 150, 83>>,
  <<1536, -2560, 250, 4096, 40, 19, 44, 28>>,
  <<1536, -512, 250, 4096, 0, 0, 0, 0>>,
  <<1536, 512, 250, 4096, 0, 0, 0, 0>>,
  <<1536, 1536, 250, 4096, 0, 0, 0, 0>>,
  <<2048, -6144, 250, 4096, 255, 10, 78, 91>>,
  <<2048, -4096, 250, 4096, 242, 9, 75, 86>>,
  <<2048, -2048, 250, 4096, 83, 47, 120, 66>>,
  <<2048, -1024, 250, 4096, 115, 45, 67, 69>>,
  <<2048, 0, 250, 4096, 125, 49, 73, 74>>,
  <<2048, 2048, 250, 4096, 120, 47, 70, 72>>,
  <<2048, 6144, 250, 4096, 137, 10, 255, 76>>,
  <<2560, -3584, 250, 4096, 68, 181, 109, 139>>,
  <<2560, -2560, 250, 4096, 66, 177, 106, 135>>,
  <<2560, 512, 250, 4096, 51, 14, 173, 43>>,
  <<2560, 1536, 250, 4096, 13, 166, 172, 121>>,
  <<3072, -3072, 250, 4096, 127, 9, 238, 71>>,
  <<3072, -2048, 250, 4096, 161, 179, 67, 160>>,
  <<3072, -1024, 250, 4096, 157, 174, 65, 156>>,
  <<3072, 1024, 250, 4096, 65, 174, 104, 134>>,
  <<3072, 3072, 250, 4096, 238, 9, 74, 85>>,
  <<3072, 5120, 250, 4096, 137, 10, 255, 76>>,
  <<3584, -3584, 250, 4096, 134, 10, 250, 74>>,
  <<3584, -2560, 250, 4096, 128, 9, 239, 71>>,
  <<3584, 512, 250, 4096, 67, 178, 107, 137>>,
  <<3584, 1536, 250, 4096, 62, 17, 212, 52>>,
  <<4096, -8192, 250, 4096, 217, 72, 72, 116>>,
  <<4096, -4096, 250, 4096, 137, 10, 255, 76>>,
  <<4096, -2048, 250, 4096, 130, 9, 242, 72>>,
  <<4096, 0, 250, 4096, 62, 17, 213, 53>>,
  <<4096, 2048, 250, 4096, 242, 9, 75, 87>>,
  <<4096, 4096, 250, 4096, 255, 10, 78, 91>>,
  <<4096, 6144, 250, 4096, 195, 217, 81, 195>>,
  <<4096, 8192, 250, 4096, 188, 217, 72, 192>>,
  <<4096, 12288, 250, 4096, 187, 217, 72, 191>>,
  <<4608, -1536, 250, 4096, 132, 9, 247, 73>>,
  <<4608, -512, 250, 4096, 130, 9, 243, 72>>,
  <<5120, -5120, 250, 4096, 195, 217, 81, 195>>,
  <<5120, -3072, 250, 4096, 137, 10, 255, 76>>,
  <<5120, -1024, 250, 4096, 135, 10, 251, 75>>,
  <<5120, 1024, 250, 4096, 251, 10, 78, 90>>,
  <<5120, 3072, 250, 4096, 255, 10, 78, 91>>,
  <<5120, 5120, 250, 4096, 81, 217, 130, 166>>,
  <<5120, 7168, 250, 4096, 188, 217, 72, 192>>,
  <<5632, -1536, 250, 4096, 137, 10, 255, 76>>,
  <<5632, -512, 250, 4096, 137, 10, 255, 76>>,
  <<6144, -6144, 250, 4096, 217, 72, 72, 115>>,
  <<6144, -4096, 250, 4096, 195, 217, 81, 195>>,
  <<6144, -2048, 250, 4096, 195, 217, 81, 195>>,
  <<6144, 2048, 250, 4096, 81, 217, 129, 166>>,
  <<6144, 6144, 250, 4096, 188, 217, 72, 192>>,
  <<6656, -1536, 250, 4096, 195, 217, 81, 195>>,
  <<6656, -512, 250, 4096, 195, 217, 81, 195>>,
  <<7168, -5120, 250, 4096, 217, 72, 72, 115>>,
  <<7168, -3072, 250, 4096, 195, 217, 81, 195>>,
  <<7168, -1024, 250, 4096, 195, 217, 81, 195>>,
  <<7168, 1024, 250, 4096, 81, 217, 130, 166>>,
  <<7168, 3072, 250, 4096, 81, 217, 130, 166>>,
  <<7168, 7168, 250, 4096, 188, 217, 72, 192>>,
  <<7680, -1536, 250, 4096, 195, 217, 81, 195>>,
  <<7680, -512, 250, 4096, 195, 217, 81, 195>>,
  <<8192, -8192, 250, 4096, 217, 73, 72, 116>>,
  <<8192, -4096, 250, 4096, 217, 72, 72, 116>>,
  <<8192, -2048, 250, 4096, 217, 72, 72, 115>>,
  <<8192, 0, 250, 4096, 81, 217, 130, 166>>,
  <<8192, 4096, 250, 4096, 188, 217, 72, 192>>,
  <<8192, 6144, 250, 4096, 187, 217, 72, 192>>,
  <<8192, 8192, 250, 4096, 187, 217, 72, 191>>,
  <<8192, 12288, 250, 4096, 187, 217, 72, 191>>,
  <<8704, 2560, 250, 4096, 188, 217, 72, 192>>,
  <<8704, 3584, 250, 4096, 188, 217, 72, 192>>,
  <<8704, 4608, 250, 4096, 188, 217, 72, 192>>,
  <<8704, 5632, 250, 4096, 187, 217, 72, 192>>,
  <<9216, -3072, 250, 4096, 217, 72, 72, 116>>,
  <<9216, -1024, 250, 4096, 217, 72, 72, 116>>,
  <<9216, 3072, 250, 4096, 188, 217, 72, 192>>,
  <<9216, 5120, 250, 4096, 187, 217, 72, 192>>,
  <<9216, 7168, 250, 4096, 187, 217, 72, 191>>,
  <<9728, 2560, 250, 4096, 188, 217, 72, 192>>,
  <<9728, 3584, 250, 4096, 187, 217, 72, 192>>,
  <<9728, 4608, 250, 4096, 187, 217, 72, 191>>,
  <<9728, 5632, 250, 4096, 187, 217, 72, 191>>,
  <<10240, -6144, 250, 4096, 217, 73, 72, 116>>,
  <<10240, -2048, 250, 4096, 217, 73, 72, 116>>,
  <<10240, 2048, 250, 4096, 187, 217, 72, 192>>,
  <<10240, 6144, 250, 4096, 187, 217, 72, 191>>,
  <<10752, 2560, 250, 4096, 187, 217, 72, 191>>,
  <<10752, 3584, 250, 4096, 187, 217, 72, 191>>,
  <<10752, 4608, 250, 4096, 187, 217, 72, 191>>,
  <<10752, 5632, 250, 4096, 187, 217, 72, 191>>,
  <<11264, -3072, 250, 4096, 217, 73, 72, 116>>,
  <<11264, 5120, 250, 4096, 187, 217, 72, 191>>,
  <<11264, 7168, 250, 4096, 187, 217, 72, 191>>,
  <<11776, 2560, 250, 4096, 187, 217, 72, 191>>,
  <<11776, 3584, 250, 4096, 187, 217, 72, 191>>,
  <<11776, 4608, 250, 4096, 187, 217, 72, 191>>,
  <<11776, 5632, 250, 4096, 187, 217, 72, 191>>,
  <<12288, -8192, 250, 4096, 217, 73, 72, 116>>,
  <<12288, -4096, 250, 4096, 217, 73, 72, 116>>,
  <<12288, -2048, 250, 4096, 217, 73, 72, 116>>,
  <<12288, 0, 250, 4096, 187, 217, 72, 191>>,
  <<12288, 4096, 250, 4096, 187, 217, 72, 191>>,
  <<12288, 6144, 250, 4096, 187, 217, 72, 191>>,
  <<12288, 8192, 250, 4096, 187, 217, 72, 191>>,
  <<12288, 12288, 250, 4096, 255, 10, 79, 91>>,
  <<12800, 6656, 250, 4096, 187, 217, 72, 191>>,
  <<12800, 7680, 250, 4096, 187, 217, 72, 191>>,
  <<13312, -5120, 250, 4096, 217, 73, 72, 116>>,
  <<13312, -1024, 250, 4096, 217, 73, 72, 116>>,
  <<13312, 3072, 250, 4096, 187, 217, 72, 191>>,
  <<13312, 5120, 250, 4096, 187, 217, 72, 191>>,
  <<13312, 7168, 250, 4096, 187, 217, 72, 191>>,
  <<13824, 6656, 250, 4096, 187, 217, 72, 191>>,
  <<13824, 7680, 250, 4096, 187, 217, 72, 191>>,
  <<14336, -2048, 250, 4096, 217, 73, 72, 116>>,
  <<14336, 2048, 250, 4096, 187, 217, 72, 191>>,
  <<14336, 6144, 250, 4096, 187, 217, 72, 191>>,
  <<14848, 6656, 250, 4096, 187, 217, 72, 191>>,
  <<14848, 7680, 250, 4096, 255, 10, 80, 91>>,
  <<15360, -1024, 250, 4096, 217, 73, 72, 116>>,
  <<15360, 5120, 250, 4096, 187, 217, 72, 191>>,
  <<15360, 7168, 250, 4096, 255, 10, 80, 91>>,
  <<15872, 6656, 250, 4096, 255, 10, 79, 91>>,
  <<15872, 7680, 250, 4096, 255, 10, 79, 91>>,
  <<16384, -4096, 250, 4096, 136, 10, 255, 76>>,
  <<16384, 4096, 250, 4096, 255, 10, 80, 91>>,
  <<17408, -3072, 250, 4096, 136, 10, 255, 76>>,
  <<17408, 5120, 250, 4096, 255, 10, 79, 91>>,
  <<18432, -2048, 250, 4096, 136, 10, 255, 76>>,
  <<18432, 6144, 250, 4096, 255, 10, 79, 91>>,
  <<21504, -1024, 250, 4096, 137, 10, 255, 76>>,
  <<21504, 7168, 250, 4096, 255, 10, 79, 91>>,
  <<-28672, -12288, 250, 8192, 255, 10, 79, 91>>,
  <<-28672, -4096, 250, 8192, 255, 10, 79, 91>>,
  <<-20480, -12288, 250, 8192, 255, 10, 79, 91>>,
  <<-20480, -8192, 250, 8192, 255, 10, 79, 91>>,
  <<-20480, -4096, 250, 8192, 255, 10, 79, 91>>,
  <<-20480, 0, 250, 8192, 136, 10, 255, 76>>,
  <<-15872, -7680, 250, 8192, 255, 10, 79, 91>>,
  <<-15872, -6656, 250, 8192, 255, 10, 79, 91>>,
  <<-15360, -7168, 250, 8192, 255, 10, 80, 91>>,
  <<-15360, -5120, 250, 8192, 187, 217, 72, 191>>,
  <<-15360, -3072, 250, 8192, 187, 217, 72, 191>>,
  <<-15360, -1024, 250, 8192, 187, 217, 72, 191>>,
  <<-15360, 1024, 250, 8192, 217, 73, 72, 116>>,
  <<-14848, -7680, 250, 8192, 255, 10, 80, 91>>,
  <<-14848, -6656, 250, 8192, 187, 217, 72, 191>>,
  <<-14336, -6144, 250, 8192, 187, 217, 72, 191>>,
  <<-14336, -2048, 250, 8192, 187, 217, 72, 191>>,
  <<-14336, 2048, 250, 8192, 217, 73, 72, 116>>,
  <<-13824, -7680, 250, 8192, 187, 217, 72, 191>>,
  <<-13824, -6656, 250, 8192, 187, 217, 72, 191>>,
  <<-13824, -5632, 250, 8192, 187, 217, 72, 191>>,
  <<-13312, -7168, 250, 8192, 187, 217, 72, 191>>,
  <<-13312, -5120, 250, 8192, 187, 217, 72, 191>>,
  <<-13312, -3072, 250, 8192, 187, 217, 72, 191>>,
  <<-13312, -1024, 250, 8192, 187, 217, 72, 191>>,
  <<-13312, 1024, 250, 8192, 217, 73, 72, 116>>,
  <<-12800, -7680, 250, 8192, 187, 217, 72, 191>>,
  <<-12800, -6656, 250, 8192, 187, 217, 72, 191>>,
  <<-12800, -5632, 250, 8192, 187, 217, 72, 191>>,
  <<-12288, -12288, 250, 8192, 255, 10, 79, 91>>,
  <<-12288, -8192, 250, 8192, 187, 217, 72, 191>>,
  <<-12288, -6144, 250, 8192, 187, 217, 72, 191>>,
  <<-12288, -4096, 250, 8192, 187, 217, 72, 191>>,
  <<-12288, -2048, 250, 8192, 187, 217, 72, 191>>,
  <<-12288, 0, 250, 8192, 217, 73, 72, 116>>,
  <<-12288, 4096, 250, 8192, 217, 73, 72, 116>>,
  <<-11776, -6656, 250, 8192, 187, 217, 72, 191>>,
  <<-11776, -5632, 250, 8192, 187, 217, 72, 191>>,
  <<-11776, -4608, 250, 8192, 187, 217, 72, 191>>,
  <<-11264, -7168, 250, 8192, 187, 217, 72, 191>>,
  <<-11264, -5120, 250, 8192, 187, 217, 72, 191>>,
  <<-11264, -3072, 250, 8192, 187, 217, 72, 191>>,
  <<-11264, -1024, 250, 8192, 187, 217, 72, 191>>,
  <<-11264, 1024, 250, 8192, 217, 73, 72, 116>>,
  <<-10752, -6656, 250, 8192, 187, 217, 72, 191>>,
  <<-10752, -5632, 250, 8192, 187, 217, 72, 191>>,
  <<-10752, -4608, 250, 8192, 187, 217, 72, 191>>,
  <<-10240, -6144, 250, 8192, 187, 217, 72, 191>>,
  <<-10240, -5120, 250, 8192, 187, 217, 72, 191>>,
  <<-10240, -4096, 250, 8192, 187, 217, 72, 191>>,
  <<-10240, -2048, 250, 8192, 187, 217, 72, 192>>,
  <<-10240, 0, 250, 8192, 217, 73, 72, 116>>,
  <<-10240, 2048, 250, 8192, 217, 73, 72, 116>>,
  <<-9728, -5632, 250, 8192, 187, 217, 72, 191>>,
  <<-9728, -4608, 250, 8192, 187, 217, 72, 191>>,
  <<-9728, -3584, 250, 8192, 187, 217, 72, 192>>,
  <<-9216, -7168, 250, 8192, 187, 217, 72, 191>>,
  <<-9216, -5120, 250, 8192, 187, 217, 72, 192>>,
  <<-9216, -4096, 250, 8192, 188, 217, 72, 192>>,
  <<-9216, -3072, 250, 8192, 188, 217, 72, 192>>,
  <<-9216, -1024, 250, 8192, 188, 217, 72, 192>>,
  <<-9216, 1024, 250, 8192, 217, 72, 72, 116>>,
  <<-8704, -5632, 250, 8192, 187, 217, 72, 192>>,
  <<-8704, -4608, 250, 8192, 188, 217, 72, 192>>,
  <<-8704, -3584, 250, 8192, 188, 217, 72, 192>>,
  <<-8192, -8192, 250, 8192, 187, 217, 72, 191>>,
  <<-8192, -6144, 250, 8192, 187, 217, 72, 192>>,
  <<-8192, -5120, 250, 8192, 188, 217, 72, 192>>,
  <<-8192, -4096, 250, 8192, 188, 217, 72, 192>>,
  <<-8192, -2048, 250, 8192, 188, 217, 72, 192>>,
  <<-8192, 4096, 250, 8192, 217, 72, 72, 116>>,
  <<-8192, 8192, 250, 8192, 217, 73, 72, 116>>,
  <<-8192, 12288, 250, 8192, 217, 73, 72, 116>>,
  <<-7680, -5632, 250, 8192, 188, 217, 72, 192>>,
  <<-7680, -4608, 250, 8192, 188, 217, 72, 192>>,
  <<-7680, -3584, 250, 8192, 188, 217, 72, 192>>,
  <<-7680, -2560, 250, 8192, 214, 8, 67, 76>>,
  <<-7168, -5120, 250, 8192, 188, 217, 72, 192>>,
  <<-7168, -4096, 250, 8192, 188, 217, 72, 192>>,
  <<-7168, -3072, 250, 8192, 212, 8, 66, 76>>,
  <<-7168, -1024, 250, 8192, 45, 12, 153, 38>>,
  <<-6656, -5632, 250, 8192, 188, 217, 72, 192>>,
  <<-6656, -4608, 250, 8192, 122, 9, 227, 67>>,
  <<-6656, -3584, 250, 8192, 15, 190, 196, 139>>,
  <<-6656, -2560, 250, 8192, 146, 162, 61, 146>>,
  <<-6144, -6144, 250, 8192, 188, 217, 72, 192>>,
  <<-6144, -5120, 250, 8192, 123, 9, 230, 68>>,
  <<-6144, -4096, 250, 8192, 116, 8, 216, 64>>,
  <<-6144, -3072, 250, 8192, 62, 167, 100, 128>>,
  <<-6144, -2048, 250, 8192, 143, 159, 59, 143>>,
  <<-6144, 2048, 250, 8192, 59, 159, 95, 122>>,
  <<-6144, 6144, 250, 8192, 217, 72, 72, 115>>,
  <<-5632, -5632, 250, 8192, 125, 9, 233, 69>>,
  <<-5632, -4608, 250, 8192, 118, 8, 221, 65>>,
  <<-5632, -3584, 250, 8192, 58, 16, 200, 49>>,
  <<-5632, -2560, 250, 8192, 62, 165, 99, 127>>,
  <<-5632, -1536, 250, 8192, 99, 39, 58, 59>>,
  <<-5120, -5120, 250, 8192, 121, 9, 226, 67>>,
  <<-5120, -3072, 250, 8192, 63, 169, 101, 130>>,
  <<-5120, -2048, 250, 8192, 43, 12, 149, 37>>,
  <<-5120, -1024, 250, 8192, 31, 52, 75, 49>>,
  <<-4608, -5632, 250, 8192, 124, 9, 231, 69>>,
  <<-4608, -4608, 250, 8192, 59, 16, 203, 50>>,
  <<-4608, -3584, 250, 8192, 64, 171, 103, 131>>,
  <<-4608, -2560, 250, 8192, 47, 13, 160, 40>>,
  <<-4608, -1536, 250, 8192, 38, 80, 33, 62>>,
  <<-4096, -12288, 250, 8192, 187, 217, 72, 191>>,
  <<-4096, -8192, 250, 8192, 188, 217, 72, 192>>,
  <<-4096, -6144, 250, 8192, 126, 9, 235, 70>>,
  <<-4096, -4096, 250, 8192, 64, 172, 103, 132>>,
  <<-4096, -3072, 250, 8192, 63, 167, 100, 128>>,
  <<-4096, -2048, 250, 8192, 125, 49, 73, 75>>,
  <<-4096, 4096, 250, 8192, 155, 172, 64, 155>>,
  <<-4096, 8192, 250, 8192, 217, 72, 72, 116>>,
  <<-4096, 12288, 250, 8192, 217, 73, 72, 116>>,
  <<-3584, -2560, 250, 8192, 127, 50, 74, 75>>,
  <<-3584, -1536, 250, 8192, 48, 101, 41, 78>>,
  <<-3072, -5120, 250, 8192, 155, 173, 65, 155>>,
  <<-3072, -3072, 250, 8192, 14, 176, 181, 128>>,
  <<-3072, -2048, 250, 8192, 145, 129, 15, 121>>,
  <<-3072, -1024, 250, 8192, 37, 16, 18, 22>>,
  <<-3072, 1024, 250, 8192, 31, 16, 37, 23>>,
  <<-3072, 3072, 250, 8192, 53, 14, 181, 45>>,
  <<-2560, -2560, 250, 8192, 24, 58, 35, 45>>,
  <<-2048, -6144, 250, 8192, 126, 9, 234, 70>>,
  <<-2048, -4096, 250, 8192, 55, 14, 185, 46>>,
  <<-2048, -3072, 250, 8192, 141, 126, 15, 118>>,
  <<-2048, 6144, 250, 8192, 126, 9, 234, 70>>,
  <<-1024, -5120, 250, 8192, 61, 163, 98, 125>>,
  <<-1024, -3072, 250, 8192, 0, 0, 0, 0>>,
  <<-1024, 3072, 250, 8192, 0, 0, 0, 0>>,
  <<0, -8192, 250, 8192, 79, 211, 126, 162>>,
  <<0, 8192, 250, 8192, 190, 211, 79, 190>>,
  <<0, 12288, 250, 8192, 217, 73, 72, 116>>,
  <<512, -3584, 250, 8192, 113, 45, 66, 67>>,
  <<1024, -5120, 250, 8192, 226, 9, 70, 81>>,
  <<1024, -3072, 250, 8192, 78, 45, 113, 62>>,
  <<1024, 3072, 250, 8192, 113, 45, 66, 68>>,
  <<1024, 5120, 250, 8192, 121, 9, 226, 67>>,
  <<1536, -3584, 250, 8192, 88, 51, 129, 71>>,
  <<1536, -2560, 250, 8192, 20, 10, 22, 14>>,
  <<1536, -512, 250, 8192, 0, 0, 0, 0>>,
  <<1536, 512, 250, 8192, 0, 0, 0, 0>>,
  <<1536, 1536, 250, 8192, 0, 0, 0, 0>>,
  <<2048, -6144, 250, 8192, 239, 9, 73, 85>>,
  <<2048, -4096, 250, 8192, 216, 8, 68, 77>>,
  <<2048, -2048, 250, 8192, 68, 39, 99, 54>>,
  <<2048, -1024, 250, 8192, 94, 37, 55, 56>>,
  <<2048, 0, 250, 8192, 103, 41, 60, 62>>,
  <<2048, 2048, 250, 8192, 99, 39, 57, 59>>,
  <<2048, 6144, 250, 8192, 129, 9, 239, 71>>,
  <<2560, -3584, 250, 8192, 60, 159, 96, 122>>,
  <<2560, -2560, 250, 8192, 58, 155, 93, 119>>,
  <<2560, 512, 250, 8192, 44, 12, 148, 37>>,
  <<2560, 1536, 250, 8192, 11, 142, 147, 103>>,
  <<3072, -3072, 250, 8192, 114, 8, 212, 63>>,
  <<3072, -2048, 250, 8192, 141, 157, 59, 141>>,
  <<3072, -1024, 250, 8192, 137, 152, 57, 137>>,
  <<3072, 1024, 250, 8192, 57, 152, 91, 117>>,
  <<3072, 3072, 250, 8192, 212, 8, 66, 76>>,
  <<3072, 5120, 250, 8192, 126, 9, 234, 70>>,
  <<3584, -3584, 250, 8192, 120, 9, 224, 67>>,
  <<3584, -2560, 250, 8192, 114, 8, 214, 63>>,
  <<3584, 512, 250, 8192, 59, 156, 94, 120>>,
  <<3584, 1536, 250, 8192, 54, 15, 186, 46>>,
  <<4096, -8192, 250, 8192, 217, 72, 72, 116>>,
  <<4096, -4096, 250, 8192, 125, 9, 233, 69>>,
  <<4096, -2048, 250, 8192, 116, 8, 217, 64>>,
  <<4096, 0, 250, 8192, 55, 15, 187, 46>>,
  <<4096, 2048, 250, 8192, 217, 8, 67, 77>>,
  <<4096, 4096, 250, 8192, 233, 9, 72, 83>>,
  <<4096, 6144, 250, 8192, 187, 208, 78, 187>>,
  <<4096, 8192, 250, 8192, 188, 217, 72, 192>>,
  <<4096, 12288, 250, 8192, 187, 217, 72, 191>>,
  <<4608, -1536, 250, 8192, 119, 8, 221, 66>>,
  <<4608, -512, 250, 8192, 117, 8, 218, 65>>,
  <<5120, -5120, 250, 8192, 187, 207, 77, 186>>,
  <<5120, -3072, 250, 8192, 126, 9, 234, 70>>,
  <<5120, -1024, 250, 8192, 121, 9, 226, 67>>,
  <<5120, 1024, 250, 8192, 226, 9, 70, 81>>,
  <<5120, 3072, 250, 8192, 234, 9, 72, 83>>,
  <<5120, 5120, 250, 8192, 77, 207, 124, 159>>,
  <<5120, 7168, 250, 8192, 188, 217, 72, 192>>,
  <<5632, -1536, 250, 8192, 125, 9, 233, 69>>,
  <<5632, -512, 250, 8192, 124, 9, 231, 69>>,
  <<6144, -6144, 250, 8192, 217, 72, 72, 115>>,
  <<6144, -4096, 250, 8192, 187, 208, 78, 187>>,
  <<6144, -2048, 250, 8192, 182, 202, 76, 182>>,
  <<6144, 2048, 250, 8192, 76, 202, 121, 155>>,
  <<6144, 6144, 250, 8192, 188, 217, 72, 192>>,
  <<6656, -1536, 250, 8192, 184, 204, 76, 184>>,
  <<6656, -512, 250, 8192, 183, 203, 76, 183>>,
  <<7168, -5120, 250, 8192, 217, 72, 72, 115>>,
  <<7168, -3072, 250, 8192, 189, 209, 78, 188>>,
  <<7168, -1024, 250, 8192, 186, 207, 77, 186>>,
  <<7168, 1024, 250, 8192, 77, 207, 124, 158>>,
  <<7168, 3072, 250, 8192, 78, 209, 125, 161>>,
  <<7168, 7168, 250, 8192, 188, 217, 72, 192>>,
  <<7680, -1536, 250, 8192, 189, 209, 78, 188>>,
  <<7680, -512, 250, 8192, 188, 209, 78, 188>>,
  <<8192, -8192, 250, 8192, 217, 73, 72, 116>>,
  <<8192, -4096, 250, 8192, 217, 72, 72, 116>>,
  <<8192, -2048, 250, 8192, 217, 72, 72, 115>>,
  <<8192, 0, 250, 8192, 79, 211, 126, 162>>,
  <<8192, 4096, 250, 8192, 188, 217, 72, 192>>,
  <<8192, 6144, 250, 8192, 187, 217, 72, 192>>,
  <<8192, 8192, 250, 8192, 187, 217, 72, 191>>,
  <<8192, 12288, 250, 8192, 187, 217, 72, 191>>,
  <<8704, 2560, 250, 8192, 188, 217, 72, 192>>,
  <<8704, 3584, 250, 8192, 188, 217, 72, 192>>,
  <<8704, 4608, 250, 8192, 188, 217, 72, 192>>,
  <<8704, 5632, 250, 8192, 187, 217, 72, 192>>,
  <<9216, -3072, 250, 8192, 217, 72, 72, 116>>,
  <<9216, -1024, 250, 8192, 217, 72, 72, 116>>,
  <<9216, 3072, 250, 8192, 188, 217, 72, 192>>,
  <<9216, 5120, 250, 8192, 187, 217, 72, 192>>,
  <<9216, 7168, 250, 8192, 187, 217, 72, 191>>,
  <<9728, 2560, 250, 8192, 188, 217, 72, 192>>,
  <<9728, 3584, 250, 8192, 187, 217, 72, 192>>,
  <<9728, 4608, 250, 8192, 187, 217, 72, 191>>,
  <<9728, 5632, 250, 8192, 187, 217, 72, 191>>,
  <<10240, -6144, 250, 8192, 217, 73, 72, 116>>,
  <<10240, -2048, 250, 8192, 217, 73, 72, 116>>,
  <<10240, 2048, 250, 8192, 187, 217, 72, 192>>,
  <<10240, 6144, 250, 8192, 187, 217, 72, 191>>,
  <<10752, 2560, 250, 8192, 187, 217, 72, 191>>,
  <<10752, 3584, 250, 8192, 187, 217, 72, 191>>,
  <<10752, 4608, 250, 8192, 187, 217, 72, 191>>,
  <<10752, 5632, 250, 8192, 187, 217, 72, 191>>,
  <<11264, -3072, 250, 8192, 217, 73, 72, 116>>,
  <<11264, 5120, 250, 8192, 187, 217, 72, 191>>,
  <<11264, 7168, 250, 8192, 187, 217, 72, 191>>,
  <<11776, 2560, 250, 8192, 187, 217, 72, 191>>,
  <<11776, 3584, 250, 8192, 187, 217, 72, 191>>,
  <<11776, 4608, 250, 8192, 187, 217, 72, 191>>,
  <<11776, 5632, 250, 8192, 187, 217, 72, 191>>,
  <<12288, -8192, 250, 8192, 217, 73, 72, 116>>,
  <<12288, -4096, 250, 8192, 217, 73, 72, 116>>,
  <<12288, -2048, 250, 8192, 217, 73, 72, 116>>,
  <<12288, 0, 250, 8192, 187, 217, 72, 191>>,
  <<12288, 4096, 250, 8192, 187, 217, 72, 191>>,
  <<12288, 6144, 250, 8192, 187, 217, 72, 191>>,
  <<12288, 8192, 250, 8192, 187, 217, 72, 191>>,
  <<12288, 12288, 250, 8192, 255, 10, 79, 91>>,
  <<12800, 6656, 250, 8192, 187, 217, 72, 191>>,
  <<12800, 7680, 250, 8192, 187, 217, 72, 191>>,
  <<13312, -5120, 250, 8192, 217, 73, 72, 116>>,
  <<13312, -1024, 250, 8192, 217, 73, 72, 116>>,
  <<13312, 3072, 250, 8192, 187, 217, 72, 191>>,
  <<13312, 5120, 250, 8192, 187, 217, 72, 191>>,
  <<13312, 7168, 250, 8192, 187, 217, 72, 191>>,
  <<13824, 6656, 250, 8192, 187, 217, 72, 191>>,
  <<13824, 7680, 250, 8192, 187, 217, 72, 191>>,
  <<14336, -2048, 250, 8192, 217, 73, 72, 116>>,
  <<14336, 2048, 250, 8192, 187, 217, 72, 191>>,
  <<14336, 6144, 250, 8192, 187, 217, 72, 191>>,
  <<14848, 6656, 250, 8192, 187, 217, 72, 191>>,
  <<14848, 7680, 250, 8192, 255, 10, 80, 91>>,
  <<15360, -1024, 250, 8192, 217, 73, 72, 116>>,
  <<15360, 5120, 250, 8192, 187, 217, 72, 191>>,
  <<15360, 7168, 250, 8192, 255, 10, 80, 91>>,
  <<15872, 6656, 250, 8192, 255, 10, 79, 91>>,
  <<15872, 7680, 250, 8192, 255, 10, 79, 91>>,
  <<16384, -4096, 250, 8192, 136, 10, 255, 76>>,
  <<16384, 4096, 250, 8192, 255, 10, 80, 91>>,
  <<17408, -3072, 250, 8192, 136, 10, 255, 76>>,
  <<17408, 5120, 250, 8192, 255, 10, 79, 91>>,
  <<18432, -2048, 250, 8192, 136, 10, 255, 76>>,
  <<18432, 6144, 250, 8192, 255, 10, 79, 91>>,
  <<21504, -1024, 250, 8192, 137, 10, 255, 76>>,
  <<21504, 7168, 250, 8192, 255, 10, 79, 91>>,
  <<-16128, -7936, 1000, 512, 255, 10, 79, 91>>,
  <<-16128, -7424, 1000, 512, 255, 10, 79, 91>>,
  <<-15616, -7936, 1000, 512, 255, 10, 79, 91>>,
  <<-15616, -7424, 1000, 512, 255, 10, 79, 91>>,
  <<-15104, -7936, 1000, 512, 255, 10, 79, 91>>,
  <<-15104, -7424, 1000, 512, 255, 10, 80, 91>>,
  <<-14592, -7936, 1000, 512, 255, 10, 80, 91>>,
  <<-14592, -7424, 1000, 512, 187, 217, 72, 191>>,
  <<-12032, -6912, 1000, 512, 187, 217, 72, 191>>,
  <<-12032, -6400, 1000, 512, 187, 217, 72, 191>>,
  <<-11520, -6912, 1000, 512, 187, 217, 72, 191>>,
  <<-11520, -6400, 1000, 512, 187, 217, 72, 191>>,
  <<-11008, -6912, 1000, 512, 187, 217, 72, 191>>,
  <<-11008, -6400, 1000, 512, 187, 217, 72, 191>>,
  <<-10496, -6912, 1000, 512, 187, 217, 72, 191>>,
  <<-10496, -6400, 1000, 512, 187, 217, 72, 191>>,
  <<-9984, -4864, 1000, 512, 187, 217, 72, 191>>,
  <<-9984, -4352, 1000, 512, 187, 217, 72, 191>>,
  <<-9472, -4864, 1000, 512, 187, 217, 72, 192>>,
  <<-9472, -4352, 1000, 512, 187, 217, 72, 192>>,
  <<-8960, -4864, 1000, 512, 187, 217, 72, 192>>,
  <<-8960, -4352, 1000, 512, 188, 217, 72, 192>>,
  <<-8448, -4864, 1000, 512, 188, 217, 72, 192>>,
  <<-8448, -4352, 1000, 512, 188, 217, 72, 192>>,
  <<-8192, -8192, 1000, 512, 187, 217, 72, 191>>,
  <<-8192, -4096, 1000, 512, 188, 217, 72, 192>>,
  <<-8192, 4096, 1000, 512, 217, 72, 72, 116>>,
  <<-8192, 8192, 1000, 512, 217, 73, 72, 116>>,
  <<-8192, 12288, 1000, 512, 217, 73, 72, 116>>,
  <<-4096, -8192, 1000, 512, 188, 217, 72, 192>>,
  <<-4096, -4096, 1000, 512, 81, 217, 130, 166>>,
  <<-4096, 4096, 1000, 512, 195, 217, 81, 195>>,
  <<-4096, 8192, 1000, 512, 217, 72, 72, 116>>,
  <<-4096, 12288, 1000, 512, 217, 73, 72, 116>>,
  <<0, -8192, 1000, 512, 81, 217, 130, 166>>,
  <<0, 8192, 1000, 512, 195, 217, 81, 195>>,
  <<0, 12288, 1000, 512, 217, 73, 72, 116>>,
  <<256, -3840, 1000, 512, 130, 74, 189, 104>>,
  <<256, -3328, 1000, 512, 75, 156, 64, 121>>,
  <<768, -3840, 1000, 512, 20, 247, 255, 180>>,
  <<768, -3328, 1000, 512, 203, 80, 118, 121>>,
  <<1280, -3840, 1000, 512, 149, 85, 216, 119>>,
  <<1280, -3328, 1000, 512, 20, 243, 250, 177>>,
  <<1792, -3840, 1000, 512, 81, 217, 130, 166>>,
  <<1792, -3328, 1000, 512, 81, 217, 129, 166>>,
  <<4096, -8192, 1000, 512, 217, 72, 72, 116>>,
  <<4096, -4096, 1000, 512, 137, 10, 255, 76>>,
  <<4096, 0, 1000, 512, 75, 20, 255, 63>>,
  <<4096, 4096, 1000, 512, 255, 10, 78, 91>>,
  <<4096, 8192, 1000, 512, 188, 217, 72, 192>>,
  <<4096, 12288, 1000, 512, 187, 217, 72, 191>>,
  <<4352, -2816, 1000, 512, 137, 10, 255, 76>>,
  <<4352, -2304, 1000, 512, 137, 10, 255, 76>>,
  <<4864, -2816, 1000, 512, 137, 10, 255, 76>>,
  <<4864, -2304, 1000, 512, 137, 10, 255, 76>>,
  <<5376, -2816, 1000, 512, 137, 10, 255, 76>>,
  <<5376, -2304, 1000, 512, 137, 10, 255, 76>>,
  <<5888, -2816, 1000, 512, 195, 217, 81, 195>>,
  <<5888, -2304, 1000, 512, 138, 10, 255, 76>>,
  <<6400, -768, 1000, 512, 195, 217, 81, 195>>,
  <<6400, -256, 1000, 512, 195, 217, 81, 195>>,
  <<6912, -768, 1000, 512, 195, 217, 81, 195>>,
  <<6912, -256, 1000, 512, 195, 217, 81, 195>>,
  <<7424, -768, 1000, 512, 195, 217, 81, 195>>,
  <<7424, -256, 1000, 512, 195, 217, 81, 195>>,
  <<7936, -768, 1000, 512, 195, 217, 81, 195>>,
  <<7936, -256, 1000, 512, 195, 217, 81, 195>>,
  <<8192, -8192, 1000, 512, 217, 73, 72, 116>>,
  <<8192, -4096, 1000, 512, 217, 72, 72, 116>>,
  <<8192, 0, 1000, 512, 81, 217, 130, 166>>,
  <<8192, 4096, 1000, 512, 188, 217, 72, 192>>,
  <<8192, 8192, 1000, 512, 187, 217, 72, 191>>,
  <<8192, 12288, 1000, 512, 187, 217, 72, 191>>,
  <<8448, 4352, 1000, 512, 188, 217, 72, 192>>,
  <<8448, 4864, 1000, 512, 188, 217, 72, 192>>,
  <<8960, 4352, 1000, 512, 188, 217, 72, 192>>,
  <<8960, 4864, 1000, 512, 187, 217, 72, 192>>,
  <<9472, 4352, 1000, 512, 187, 217, 72, 192>>,
  <<9472, 4864, 1000, 512, 187, 217, 72, 192>>,
  <<9984, 4352, 1000, 512, 187, 217, 72, 191>>,
  <<9984, 4864, 1000, 512, 187, 217, 72, 191>>,
  <<12288, -8192, 1000, 512, 217, 73, 72, 116>>,
  <<12288, -4096, 1000, 512, 217, 73, 72, 116>>,
  <<12288, 0, 1000, 512, 187, 217, 72, 191>>,
  <<12288, 4096, 1000, 512, 187, 217, 72, 191>>,
  <<12288, 8192, 1000, 512, 187, 217, 72, 191>>,
  <<12288, 12288, 1000, 512, 255, 10, 79, 91>>,
  <<12544, 5376, 1000, 512, 187, 217, 72, 191>>,
  <<12544, 5888, 1000, 512, 187, 217, 72, 191>>,
  <<13056, 5376, 1000, 512, 187, 217, 72, 191>>,
  <<13056, 5888, 1000, 512, 187, 217, 72, 191>>,
  <<13568, 5376, 1000, 512, 187, 217, 72, 191>>,
  <<13568, 5888, 1000, 512, 187, 217, 72, 191>>,
  <<14080, 5376, 1000, 512, 187, 217, 72, 191>>,
  <<14080, 5888, 1000, 512, 187, 217, 72, 191>>,
  <<14592, 7424, 1000, 512, 187, 217, 72, 191>>,
  <<14592, 7936, 1000, 512, 255, 10, 80, 91>>,
  <<15104, 7424, 1000, 512, 255, 10, 80, 91>>,
  <<15104, 7936, 1000, 512, 255, 10, 79, 91>>,
  <<15616, 7424, 1000, 512, 255, 10, 79, 91>>,
  <<15616, 7936, 1000, 512, 255, 10, 79, 91>>,
  <<16128, 7424, 1000, 512, 255, 10, 79, 91>>,
  <<16128, 7936, 1000, 512, 255, 10, 79, 91>>,
  <<-16128, -7936, 1000, 8192, 255, 10, 79, 91>>,
  <<-16128, -7424, 1000, 8192, 255, 10, 79, 91>>,
  <<-15616, -7936, 1000, 8192, 255, 10, 79, 91>>,
  <<-15616, -7424, 1000, 8192, 255, 10, 79, 91>>,
  <<-15104, -7936, 1000, 8192, 255, 10, 79, 91>>,
  <<-15104, -7424, 1000, 8192, 255, 10, 80, 91>>,
  <<-14592, -7936, 1000, 8192, 255, 10, 80, 91>>,
  <<-14592, -7424, 1000, 8192, 187, 217, 72, 191>>,
  <<-12032, -6912, 1000, 8192, 187, 217, 72, 191>>,
  <<-12032, -6400, 1000, 8192, 187, 217, 72, 191>>,
  <<-11520, -6912, 1000, 8192, 187, 217, 72, 191>>,
  <<-11520, -6400, 1000, 8192, 187, 217, 72, 191>>,
  <<-11008, -6912, 1000, 8192, 187, 217, 72, 191>>,
  <<-11008, -6400, 1000, 8192, 187, 217, 72, 191>>,
  <<-10496, -6912, 1000, 8192, 187, 217, 72, 191>>,
  <<-10496, -6400, 1000, 8192, 187, 217, 72, 191>>,
  <<-9984, -4864, 1000, 8192, 187, 217, 72, 191>>,
  <<-9984, -4352, 1000, 8192, 187, 217, 72, 191>>,
  <<-9472, -4864, 1000, 8192, 187, 217, 72, 192>>,
  <<-9472, -4352, 1000, 8192, 187, 217, 72, 192>>,
  <<-8960, -4864, 1000, 8192, 187, 217, 72, 192>>,
  <<-8960, -4352, 1000, 8192, 188, 217, 72, 192>>,
  <<-8448, -4864, 1000, 8192, 188, 217, 72, 192>>,
  <<-8448, -4352, 1000, 8192, 188, 217, 72, 192>>,
  <<-8192, -8192, 1000, 8192, 187, 217, 72, 191>>,
  <<-8192, -4096, 1000, 8192, 188, 217, 72, 192>>,
  <<-8192, 4096, 1000, 8192, 217, 72, 72, 116>>,
  <<-8192, 8192, 1000, 8192, 217, 73, 72, 116>>,
  <<-8192, 12288, 1000, 8192, 217, 73, 72, 116>>,
  <<-4096, -8192, 1000, 8192, 188, 217, 72, 192>>,
  <<-4096, -4096, 1000, 8192, 64, 172, 103, 132>>,
  <<-4096, 4096, 1000, 8192, 155, 172, 64, 155>>,
  <<-4096, 8192, 1000, 8192, 217, 72, 72, 116>>,
  <<-4096, 12288, 1000, 8192, 217, 73, 72, 116>>,
  <<0, -8192, 1000, 8192, 79, 211, 126, 162>>,
  <<0, 8192, 1000, 8192, 190, 211, 79, 190>>,
  <<0, 12288, 1000, 8192, 217, 73, 72, 116>>,
  <<256, -3840, 1000, 8192, 70, 40, 102, 56>>,
  <<256, -3328, 1000, 8192, 33, 69, 28, 54>>,
  <<768, -3840, 1000, 8192, 12, 149, 154, 108>>,
  <<768, -3328, 1000, 8192, 116, 46, 68, 69>>,
  <<1280, -3840, 1000, 8192, 89, 51, 130, 71>>,
  <<1280, -3328, 1000, 8192, 12, 144, 148, 105>>,
  <<1792, -3840, 1000, 8192, 58, 154, 92, 118>>,
  <<1792, -3328, 1000, 8192, 56, 149, 89, 114>>,
  <<4096, -8192, 1000, 8192, 217, 72, 72, 116>>,
  <<4096, -4096, 1000, 8192, 125, 9, 233, 69>>,
  <<4096, 0, 1000, 8192, 55, 15, 187, 46>>,
  <<4096, 4096, 1000, 8192, 233, 9, 72, 83>>,
  <<4096, 8192, 1000, 8192, 188, 217, 72, 192>>,
  <<4096, 12288, 1000, 8192, 187, 217, 72, 191>>,
  <<4352, -2816, 1000, 8192, 121, 9, 226, 67>>,
  <<4352, -2304, 1000, 8192, 119, 9, 222, 66>>,
  <<4864, -2816, 1000, 8192, 124, 9, 231, 69>>,
  <<4864, -2304, 1000, 8192, 123, 9, 228, 68>>,
  <<5376, -2816, 1000, 8192, 127, 9, 235, 70>>,
  <<5376, -2304, 1000, 8192, 125, 9, 233, 69>>,
  <<5888, -2816, 1000, 8192, 183, 203, 76, 182>>,
  <<5888, -2304, 1000, 8192, 128, 9, 237, 71>>,
  <<6400, -768, 1000, 8192, 182, 202, 76, 182>>,
  <<6400, -256, 1000, 8192, 182, 202, 75, 181>>,
  <<6912, -768, 1000, 8192, 185, 205, 77, 184>>,
  <<6912, -256, 1000, 8192, 185, 205, 77, 184>>,
  <<7424, -768, 1000, 8192, 187, 208, 78, 187>>,
  <<7424, -256, 1000, 8192, 187, 207, 78, 186>>,
  <<7936, -768, 1000, 8192, 189, 210, 79, 189>>,
  <<7936, -256, 1000, 8192, 189, 210, 78, 189>>,
  <<8192, -8192, 1000, 8192, 217, 73, 72, 116>>,
  <<8192, -4096, 1000, 8192, 217, 72, 72, 116>>,
  <<8192, 0, 1000, 8192, 79, 211, 126, 162>>,
  <<8192, 4096, 1000, 8192, 188, 217, 72, 192>>,
  <<8192, 8192, 1000, 8192, 187, 217, 72, 191>>,
  <<8192, 12288, 1000, 8192, 187, 217, 72, 191>>,
  <<8448, 4352, 1000, 8192, 188, 217, 72, 192>>,
  <<8448, 4864, 1000, 8192, 188, 217, 72, 192>>,
  <<8960, 4352, 1000, 8192, 188, 217, 72, 192>>,
  <<8960, 4864, 1000, 8192, 187, 217, 72, 192>>,
  <<9472, 4352, 1000, 8192, 187, 217, 72, 192>>,
  <<9472, 4864, 1000, 8192, 187, 217, 72, 192>>,
  <<9984, 4352, 1000, 8192, 187, 217, 72, 191>>,
  <<9984, 4864, 1000, 8192, 187, 217, 72, 191>>,
  <<12288, -8192, 1000, 8192, 217, 73, 72, 116>>,
  <<12288, -4096, 1000, 8192, 217, 73, 72, 116>>,
  <<12288, 0, 1000, 8192, 187, 217, 72, 191>>,
  <<12288, 4096, 1000, 8192, 187, 217, 72, 191>>,
  <<12288, 8192, 1000, 8192, 187, 217, 72, 191>>,
  <<12288, 12288, 1000, 8192, 255, 10, 79, 91>>,
  <<12544, 5376, 1000, 8192, 187, 217, 72, 191>>,
  <<12544, 5888, 1000, 8192, 187, 217, 72, 191>>,
  <<13056, 5376, 1000, 8192, 187, 217, 72, 191>>,
  <<13056, 5888, 1000, 8192, 187, 217, 72, 191>>,
  <<13568, 5376, 1000, 8192, 187, 217, 72, 191>>,
  <<13568, 5888, 1000, 8192, 187, 217, 72, 191>>,
  <<14080, 5376, 1000, 8192, 187, 217, 72, 191>>,
  <<14080, 5888, 1000, 8192, 187, 217, 72, 191>>,
  <<14592, 7424, 1000, 8192, 187, 217, 72, 191>>,
  <<14592, 7936, 1000, 8192, 255, 10, 80, 91>>,
  <<15104, 7424, 1000, 8192, 255, 10, 80, 91>>,
  <<15104, 7936, 1000, 8192, 255, 10, 79, 91>>,
  <<15616, 7424, 1000, 8192, 255, 10, 79, 91>>,
  <<15616, 7936, 1000, 8192, 255, 10, 79, 91>>,
  <<16128, 7424, 1000, 8192, 255, 10, 79, 91>>,
  <<16128, 7936, 1000, 8192, 255, 10, 79, 91>>,
  <<-16384, -8192, 50000, 0, 255, 10, 79, 91>>,
  <<-16384, -4096, 50000, 0, 255, 10, 80, 91>>,
  <<-14336, -6144, 50000, 0, 187, 217, 72, 191>>,
  <<-14336, -2048, 50000, 0, 187, 217, 72, 191>>,
  <<-12288, -6144, 50000, 0, 187, 217, 72, 191>>,
  <<-12288, -4096, 50000, 0, 187, 217, 72, 191>>,
  <<-11264, -5120, 50000, 0, 187, 217, 72, 191>>,
  <<-10240, -6144, 50000, 0, 187, 217, 72, 191>>,
  <<-10240, -2048, 50000, 0, 187, 217, 72, 192>>,
  <<-9216, -5120, 50000, 0, 187, 217, 72, 192>>,
  <<-8192, -4096, 50000, 0, 188, 217, 72, 192>>,
  <<-7168, -5120, 50000, 0, 188, 217, 72, 192>>,
  <<-6144, -6144, 50000, 0, 188, 217, 72, 192>>,
  <<-6144, -2048, 50000, 0, 195, 217, 81, 195>>,
  <<-4096, -4096, 50000, 0, 81, 217, 130, 166>>,
  <<-4096, -2048, 50000, 0, 217, 85, 126, 129>>,
  <<-3072, -1024, 50000, 0, 217, 94, 105, 132>>,
  <<2048, -2048, 50000, 0, 150, 85, 217, 120>>,
  <<4096, -4096, 50000, 0, 137, 10, 255, 76>>,
  <<4096, -2048, 50000, 0, 137, 10, 255, 76>>,
  <<6144, -2048, 50000, 0, 195, 217, 81, 195>>,
  <<8192, 0, 50000, 0, 81, 217, 130, 166>>,
  <<8192, 4096, 50000, 0, 188, 217, 72, 192>>,
  <<10240, -2048, 50000, 0, 217, 73, 72, 116>>,
  <<12288, 6144, 50000, 0, 187, 217, 72, 191>>,
  <<16384, 8192, 50000, 0, 255, 10, 79, 91>>
>>
ColorKey(row) == <<row[1], row[2], row[3], row[4]>>
ColorTable ==
  [key \in {ColorKey(ColorRows[i]) : i \in DOMAIN ColorRows} |->
     LET i == CHOOSE j \in DOMAIN ColorRows : ColorKey(ColorRows[j]) = key
     IN <<ColorRows[i][5], ColorRows[i][6], ColorRows[i][7], ColorRows[i][8]>>]
\* the bytes <<r, g, b, gray>> of the record of sample s under the increment
\* curInc.  On a reset record (dist, finalang, dwell = 0) the hue is NaN,
\* _hsvToRgb takes no case of its switch and returns NaN three times, and
\* image.data keeps a NaN as 0.
ColorBytes(s, curInc) ==
  IF s = NoSample THEN <<0, 0, 0, 0>>
  ELSE ColorTable[<<s[1], s[2], s[3], curInc>>]
\* _colorCheckered on the record (n, s)
ColorCheckered(n, s, curInc, cap) ==
  IF n >= cap THEN White
  ELSE LET b == ColorBytes(s, curInc) IN <<b[1], b[2], b[3]>>
\* _colorCheckeredBlackAndWhite on the record (n, s): the gray of
\* _colorCheckered's colour, 255 for white
ColorCheckeredBlackAndWhite(n, s, curInc, cap) ==
  IF n >= cap THEN White
  ELSE LET b == ColorBytes(s, curInc) IN <<b[4], b[4], b[4]>>
\* this.colorFunc, which _getColorFunc picks by colorFuncId
ColorFunc(n, s, curInc, cap, cf) ==
  IF cf = COLOR_CHECKERED_BW
  THEN ColorCheckeredBlackAndWhite(n, s, curInc, cap)
  ELSE ColorCheckered(n, s, curInc, cap)
\* _color: black while the pixel has no result
Color(n, s, curInc, cap, cf) ==
  IF n = 0 THEN Black ELSE ColorFunc(n, s, curInc, cap, cf)

\* render, when scanDone is false: the pixels with pix[k] set get the bytes
\* of the colour _color gives and alpha 255; the others keep theirs
RenderImage(im, px, a, sr, curInc, cap, cf) ==
  [k \in Pixels |->
     IF px[k] = 1
     THEN Opaque(Color(a[k], sr[k], curInc, cap, cf))
     ELSE im[k]]
\* _color: this.pix[k] = 0 once the pixel has a result
RenderPix(px, a) == [k \in Pixels |-> IF px[k] = 1 /\ a[k] # 0 THEN 0 ELSE px[k]]

\* The run that stands at row i and sweeps `rows` rows, as it is when it then
\* sleeps: k is past the rows swept, i and cr are those of the last row swept,
\* because the `++i, cr += this.inc` of the row loop runs after the await.
Advance(run, rows, curInc) ==
  [run EXCEPT !.i = @ + rows - 1, !.k = @ + rows * imgWidth,
              !.cr = @ + (rows - 1) * curInc]
\* `++i, cr += this.inc` on resumption, with this.inc as it is then
NextRow(run, curInc) == [run EXCEPT !.i = @ + 1, !.cr = @ + curInc]

\* the run as _scan sets it up before its first row
NewRun(c, w, h, cid, kind) ==
  LET newInc == Quot(w, imgWidth) IN
  [i |-> 0, k |-> 0,
   cr |-> c[1] - Quot(h, 2) + Quot(newInc, 2),
   ciIni |-> c[2] - Quot(w, 2) + Quot(newInc, 2),
   data |-> EventData(c, w, h, cid),
   kind |-> kind,
   cancelReq |-> FALSE]

Without(f, r) == [x \in DOMAIN f \ {r} |-> f[x]]
With(f, r, v) == [x \in DOMAIN f \cup {r} |-> IF x = r THEN v ELSE f[x]]

\* the job of the callback that scan() attaches to the promise of run r
CallbackJob(r, run, success) ==
  [type |-> "cb", kind |-> run.kind, run |-> r, success |-> success,
   data |-> run.data, cancelReq |-> run.cancelReq]
ContJob(kind) ==
  [type |-> "cont", kind |-> kind, run |-> 0, success |-> TRUE,
   data |-> EventData(initCenter, 0, 0, 0), cancelReq |-> FALSE]

\* MandelbrotControls._scan on the viewport (c, w, h, cid) that the caller has
\* just set on the engine: the scan-start notification, then
\* Mandelbrot.scan -> _scan up to its first sleep or its return.  `rest` is
\* the microtask queue the caller leaves; `draw` says that the caller goes on
\* with a render pass in the same job, as start() does.
ControlsScan(c, w, h, cid, kind, sl, rest, draw) ==
  LET id == scanPromise + 1
      run0 == NewRun(c, w, h, cid, kind)
      newInc == Quot(w, imgWidth)
      cap == GetMaxN(w, h)
      ns1 == Sweep(ResetDataStructs, run0, sl.rows, newInc, cap)
      src1 == SweepSrc(ResetSrc, run0, sl.rows, newInc, cap)
  IN /\ center' = c /\ width' = w /\ height' = h /\ colorFuncId' = cid
     /\ lastEvent' = Event("scan-start", kind, run0.data, TRUE, run0.data, FALSE)
     /\ scanLoop' = ScanLoopAtStart
     /\ maxN' = cap
     /\ inc' = newInc
     /\ scanPromise' = id
     /\ ns' = ns1
     /\ src' = src1
     /\ lastWriter' = id
     /\ painted' = draw
     /\ IF draw
        THEN /\ image' = RenderImage(image, ResetPix, ns1, src1, newInc, cap, cid)
             /\ pix' = RenderPix(ResetPix, ns1)
             /\ scanDone' = sl.done
        ELSE /\ image' = image
             /\ pix' = ResetPix
             /\ scanDone' = FALSE
     /\ IF sl.done
        THEN /\ scanning' = FALSE
             /\ runs' = runs
             /\ jobs' = Append(rest, CallbackJob(id, run0, TRUE))
        ELSE /\ scanning' = TRUE
             /\ runs' = With(runs, id, Advance(run0, sl.rows, newInc))
             /\ jobs' = rest

\* start(): the initial scan of the constructed viewport, then the first
\* pass of the render loop
Start ==
  /\ ~started
  /\ started' = TRUE
  /\ \E sl \in Slices(0) :
       ControlsScan(center, width, height, colorFuncId, "start", sl, <<>>, TRUE)
  /\ UNCHANGED <<cvars, pvars, waiters, chain, probe, view>>

\* a promise that keeps one reaction only: the first handler that waits
ContsOfFirstOnly(ws, r) ==
  LET F[n \in 0 .. Len(ws)] ==
        IF n = 0 THEN <<>>
        ELSE IF ws[n].run = r /\ F[n - 1] = <<>>
             THEN <<ContJob(ws[n].kind)>> ELSE F[n - 1]
  IN F[Len(ws)]
\* the continuations of the handlers that wait for the promise of run r
ContsOf(ws, r) ==
  LET F[n \in 0 .. Len(ws)] ==
        IF n = 0 THEN <<>>
        ELSE IF ws[n].run = r THEN Append(F[n - 1], ContJob(ws[n].kind)) ELSE F[n - 1]
  IN F[Len(ws)]
OthersOf(ws, r) ==
  LET F[n \in 0 .. Len(ws)] ==
        IF n = 0 THEN <<>>
        ELSE IF ws[n].run # r THEN Append(F[n - 1], ws[n]) ELSE F[n - 1]
  IN F[Len(ws)]

\* _scan returns: scanning = false, the promise is fulfilled with scanLoop;
\* its reactions are queued in the order they were attached
Return(r) ==
  /\ scanning' = FALSE
  /\ runs' = Without(runs, r)
  /\ jobs' = <<CallbackJob(r, runs[r], scanLoop)>> \o ContsOf(waiters, r)
  /\ waiters' = OthersOf(waiters, r)
  /\ painted' = FALSE

\* the animation frame that run r sleeps on: _scan goes on after `await`
Resume(r) ==
  /\ jobs = <<>>
  /\ r \in DOMAIN runs
  /\ IF scanLoop /\ NextRow(runs[r], inc).i < imgHeight
     THEN \E sl \in Slices(NextRow(runs[r], inc).i) :
            /\ ns' = Sweep(ns, NextRow(runs[r], inc), sl.rows, inc, maxN)
            /\ src' = SweepSrc(src, NextRow(runs[r], inc), sl.rows, inc, maxN)
            /\ lastWriter' = r
            /\ IF sl.done
               THEN Return(r)
               ELSE /\ runs' = [runs EXCEPT ![r] = Advance(NextRow(@, inc), sl.rows, inc)]
                    /\ UNCHANGED <<scanning, jobs, waiters, painted>>
     ELSE /\ Return(r)
          /\ UNCHANGED <<ns, src, lastWriter>>
  /\ UNCHANGED <<center, width, height, colorFuncId, maxN, inc, scanLoop, scanPromise,
                 pix, scanDone, image, cvars, pvars, started, lastEvent, chain, probe, view>>

\* ------------------------------------------------------ MandelbrotControls
\* the pointer positions (clientX - rect.left, clientY - rect.top) the events
\* carry, in whole pixels of the canvas
PtrDowns == {<<0, 0>>}
PtrMoves == {<<0, imgHeight \div 2>>, <<imgWidth \div 2, imgHeight \div 2>>}

\* how many suspended handlers will start a scan / push a history entry
NavPending == Cardinality({n \in 1 .. Len(waiters) : waiters[n].kind \in NavKinds})
PushPending == Cardinality({n \in 1 .. Len(waiters) : waiters[n].kind = "zoomIn"})
\* the model's bounds leave room for one more scan, one more history entry
RoomToScan == scanPromise + NavPending < MaxRuns
RoomToPush == Len(zoomChain) + PushPending < MaxChain

\* the zoom-in / zoom-out sequence under observation, after a click
ChainClick(kind) ==
  IF chain.phase \in {"none", "broken"} THEN chain
  ELSE IF kind = "zoomIn" /\ chain.phase = "ins" THEN [chain EXCEPT !.ins = @ + 1]
  ELSE IF kind = "zoomOut" /\ chain.ins > chain.outs
       THEN [chain EXCEPT !.phase = "outs", !.outs = @ + 1]
  ELSE Broken

\* cancel(): `return this.scanPromise`, the promise the handler waits for
WaitTarget == scanPromise

\* Mandelbrot.cancel(), called by the handler of `kind`, up to the handler's
\* `await`: nothing to cancel, or scanLoop = false and the handler waits for
\* this.scanPromise (it goes on at once when that promise is fulfilled already)
CancelCall(kind) ==
  /\ runs' = [x \in DOMAIN runs |-> [runs[x] EXCEPT !.cancelReq = TRUE]]
  /\ IF ~scanning /\ ~scanLoop
     THEN /\ jobs' = <<ContJob(kind)>>
          /\ UNCHANGED <<scanLoop, waiters>>
     ELSE /\ scanLoop' = FALSE
          /\ IF WaitTarget \in DOMAIN runs
             THEN /\ waiters' = Append(waiters, [kind |-> kind, run |-> WaitTarget])
                  /\ jobs' = jobs
             ELSE /\ jobs' = <<ContJob(kind)>>
                  /\ waiters' = waiters

\* will cancel() leave the handler waiting
WillWait == (scanning \/ scanLoop) /\ WaitTarget \in DOMAIN runs

\* a zoom-out that goes on to cancel() whatever the history holds
ZoomOutAtRootGoesOn == FALSE
\* _zoomOut: if (this.zoomChain.length == 1) return
ZoomOutAtRoot == Len(zoomChain) = 1

\* a click on one of the five buttons: _reset, _repaint, _cancel, _zoomIn,
\* _zoomOut up to their `await`
Click(kind) ==
  /\ started \/ kind = "cancel"
  /\ jobs = <<>>
  /\ kind \in NavKinds => RoomToScan
  /\ kind = "zoomIn" => RoomToPush
  /\ WillWait => Len(waiters) < MaxWaiters
  /\ chain' = ChainClick(kind)
  /\ IF kind = "zoomOut" /\ ZoomOutAtRoot
     THEN UNCHANGED <<runs, jobs, scanLoop, waiters>>
     ELSE CancelCall(kind)
  /\ UNCHANGED <<center, width, height, colorFuncId, maxN, inc, scanning, scanPromise,
                 ns, src, pix, scanDone, image, cvars, pvars, started, lastEvent,
                 lastWriter, painted, probe, view>>

\* a splice that keeps the newest entry instead of the oldest
ResetChainKeepLast(zc) == <<zc[Len(zc)]>>
\* _reset: this.zoomChain.splice(1, this.zoomChain.length - 1)
ResetChain(zc) == <<zc[1]>>
\* a reset that leaves the select on the scheme the user picked
ResetColorKept(c) == c
\* _reset: this.colorSelect.value = this.params.colorFuncId, of the defaults
ResetColor(c) == defaultParams.colorFuncId
\* _zoomOut: if (this.zoomChain.length > 1) this.zoomChain.pop()
PopChain(zc) == IF Len(zc) > 1 THEN SubSeq(zc, 1, Len(zc) - 1) ELSE zc
\* _zoomIn: this.params.width /= 2; this.params.height /= 2
HalveParams(p) == [p EXCEPT !.width = Quot(@, 2), !.height = Quot(@, 2)]
\* a zoom-out that takes the size of the entry but leaves the center
ParamsOfTopSizeOnly(p, zc) ==
  [p EXCEPT !.width = zc[Len(zc)].width, !.height = zc[Len(zc)].height]
\* _zoomOut: the params copied from the entry on top of the history
ParamsOfTop(p, zc) ==
  [p EXCEPT !.width = zc[Len(zc)].width, !.height = zc[Len(zc)].height,
            !.center = zc[Len(zc)].center]
\* a push that enters the viewport twice
PushChainTwice(zc, c, w, h) == Append(Append(zc, ChainEntry(c, w, h)), ChainEntry(c, w, h))
\* the push of the engine's viewport in _zoomIn and _handlePointerUp
PushChain(zc, c, w, h) == Append(zc, ChainEntry(c, w, h))

\* _setMandelbrotParams followed by _scan: params.colorFuncId is read from
\* the select, the engine gets the params, the scan starts
Commit(p, kind, sl, rest) ==
  /\ params' = [p EXCEPT !.colorFuncId = colorSelect']
  /\ ControlsScan(p.center, p.width, p.height, colorSelect', kind, sl, rest, FALSE)

\* the handler of `kind` after its `await`
Continue(kind, rest) ==
  \E sl \in Slices(0) :
    CASE kind = "reset" ->
           /\ zoomChain' = ResetChain(zoomChain)
           /\ colorSelect' = ResetColor(colorSelect)
           /\ Commit(defaultParams, kind, sl, rest)
      [] kind = "repaint" ->
           /\ UNCHANGED <<zoomChain, colorSelect>>
           /\ Commit(params, kind, sl, rest)
      [] kind = "zoomIn" ->
           /\ colorSelect' = colorSelect
           /\ Commit(HalveParams(params), kind, sl, rest)
           /\ zoomChain' = PushChain(zoomChain, center', width', height')
      [] kind = "zoomOut" ->
           /\ colorSelect' = colorSelect
           /\ zoomChain' = PopChain(zoomChain)
           /\ Commit(ParamsOfTop(params, zoomChain'), kind, sl, rest)

\* one microtask
RunJob ==
  /\ jobs # <<>>
  /\ LET j == Head(jobs)
         rest == Tail(jobs)
     IN IF j.type = "cb"
        THEN \* the callback of _scan: the scan-end notification
             /\ lastEvent' = Event("scan-end", j.kind,
                                   EventData(center, width, height, colorFuncId),
                                   j.success, j.data, j.cancelReq)
             /\ jobs' = rest
             /\ UNCHANGED <<mvars, cvars, runs, lastWriter, painted>>
        ELSE IF j.kind = "cancel"
        THEN /\ jobs' = rest
             /\ UNCHANGED <<mvars, cvars, runs, lastEvent, lastWriter, painted>>
        ELSE Continue(j.kind, rest)
  /\ UNCHANGED <<pvars, started, waiters, chain, probe, view>>

\* the user picks a colour scheme in the select
SelectColor(c) ==
  /\ started
  /\ jobs = <<>>
  /\ colorSelect # c
  /\ colorSelect' = c
  /\ UNCHANGED <<mvars, params, zoomChain, pvars, hvars, ovars>>

\* _setMouseCoords: clamp to the canvas, then correct to its aspect ratio
SetMouseCoords(ex, ey) ==
  LET X == 2 * Max(0, Min(imgWidth, ex))
      Y == 2 * Max(0, Min(imgHeight, ey))
      disX0 == Abs(X - mouseXIni)
      disY0 == Abs(Y - mouseYIni)
      \* disX / disY > this.ratio; x/0 is Infinity, 0/0 is NaN
      wide == IF disY0 = 0 THEN disX0 > 0 ELSE disX0 * imgHeight > disY0 * imgWidth
      disX == IF wide THEN Quot(disY0 * imgWidth, imgHeight) ELSE disX0
      disY == IF wide THEN disY0 ELSE Quot(disX0 * imgHeight, imgWidth)
  IN [x |-> IF X < mouseXIni THEN mouseXIni - disX ELSE mouseXIni + disX,
      y |-> IF Y < mouseYIni THEN mouseYIni - disY ELSE mouseYIni + disY]

\* _setSelectionCenterAndWidth on the corrected pointer position m
SetSelectionCenterAndWidth(p, m) ==
  LET top == p.center[2] - Quot(p.width, 2)
      left == p.center[1] - Quot(p.height, 2)
      x0 == Max(0, Min(mouseXIni, m.x))
      y0 == Max(0, Min(mouseYIni, m.y))
      x1 == Min(2 * imgWidth, Max(mouseXIni, m.x))
      y1 == Min(2 * imgHeight, Max(mouseYIni, m.y))
      w == Quot((x1 - x0) * p.width, 2 * imgWidth)
  IN [p EXCEPT !.center = <<left + Quot((y0 + y1) * p.height, 4 * imgHeight),
                            top + Quot((x0 + x1) * p.width, 4 * imgWidth)>>,
               !.width = w,
               !.height = Quot(w * imgHeight, imgWidth)]

\* _handlePointerUp: does the selection made so far count as a drag
IsDrag == mouseX # mouseXIni /\ mouseY # mouseYIni

\* _handlePointerDown (one pointer: the events of another pointerId are ignored)
PointerDown(ex, ey) ==
  /\ started
  /\ jobs = <<>>
  /\ ~(scanning \/ pointerDown)
  /\ pointerDown' = TRUE
  /\ mouseX' = 2 * ex /\ mouseXIni' = 2 * ex
  /\ mouseY' = 2 * ey /\ mouseYIni' = 2 * ey
  /\ UNCHANGED <<mvars, cvars, hvars, ovars>>

\* _handlePointerMove
PointerMove(ex, ey) ==
  /\ jobs = <<>>
  /\ pointerDown
  /\ mouseX' = SetMouseCoords(ex, ey).x
  /\ mouseY' = SetMouseCoords(ex, ey).y
  /\ UNCHANGED <<mvars, cvars, pointerDown, mouseXIni, mouseYIni, hvars, ovars>>

\* _handlePointerUp
PointerUp(ex, ey) ==
  /\ jobs = <<>>
  /\ pointerDown
  /\ pointerDown' = FALSE
  /\ UNCHANGED <<mouseXIni, mouseYIni, started, waiters, colorSelect, probe, view>>
  /\ IF IsDrag
     THEN /\ RoomToScan /\ RoomToPush
          /\ mouseX' = SetMouseCoords(ex, ey).x
          /\ mouseY' = SetMouseCoords(ex, ey).y
          /\ \E sl \in Slices(0) :
               Commit(SetSelectionCenterAndWidth(params, SetMouseCoords(ex, ey)), "drag", sl, <<>>)
          /\ zoomChain' = PushChain(zoomChain, center', width', height')
          /\ chain' = IF chain.phase = "none" THEN chain ELSE Broken
     ELSE UNCHANGED <<mvars, params, zoomChain, mouseX, mouseY, runs, jobs,
                      lastEvent, lastWriter, chain, painted>>

\* _handlePointerCancel
PointerCancel ==
  /\ jobs = <<>>
  /\ pointerDown
  /\ pointerDown' = FALSE
  /\ UNCHANGED <<mvars, cvars, mouseX, mouseY, mouseXIni, mouseYIni, hvars, ovars>>

\* one pass of the render loop: Mandelbrot.render
Render ==
  /\ started
  /\ jobs = <<>>
  /\ painted' = TRUE
  /\ IF ~scanDone
     THEN /\ image' = RenderImage(image, pix, ns, src, inc, maxN, colorFuncId)
          /\ pix' = RenderPix(pix, ns)
          /\ scanDone' = ~scanning
     ELSE UNCHANGED <<image, pix, scanDone>>
  /\ UNCHANGED <<center, width, height, colorFuncId, maxN, inc, scanning, scanLoop,
                 scanPromise, ns, src, cvars, pvars, hvars, lastEvent, lastWriter,
                 chain, probe, view>>

\* ------------------------------------------------ the pure functions
\* Each is called once, on an input of its set, from the constructed state.
\* the constructor of Mandelbrot on a canvas of iw x ih pixels
ConstructProbe ==
  /\ probe = NoProbe
  /\ \E iw \in 1 .. MaxPx, ih \in 1 .. MaxPx :
       probe' = [op |-> "construct", arg |-> <<iw, ih>>, res |-> ConstructViewport(iw, ih)]
  /\ UNCHANGED <<mvars, cvars, pvars, hvars, lastEvent, lastWriter, chain, painted, view>>

\* sides in 1/ProbeUnit, on and next to each threshold of _getMaxN
ProbeUnit == 10000000
ProbeDims == {1, 40, 41, 400, 401, 4000, 4001, 40000, 40001, 400000, 400001,
              4000000, 4000001}
\* _getMaxN on two viewports
MaxNProbe ==
  /\ probe = NoProbe
  /\ \E w1 \in ProbeDims, h1 \in ProbeDims, w2 \in ProbeDims, h2 \in ProbeDims :
       probe' = [op |-> "maxN", arg |-> <<w1, h1, w2, h2>>,
                 res |-> <<GetMaxNIn(w1, h1, ProbeUnit), GetMaxNIn(w2, h2, ProbeUnit)>>]
  /\ UNCHANGED <<mvars, cvars, pvars, hvars, lastEvent, lastWriter, chain, painted, view>>

\* the escape loop and the checkered colour on a sample with whole coordinates
ProbePoints == -2 .. 3
ProbeCaps == {250, 1000}
EscapeProbe ==
  /\ probe = NoProbe
  /\ \E cr \in ProbePoints, ci \in ProbePoints, cap \in ProbeCaps :
       LET n == EscapeN(cr * Scale, ci * Scale, cap) IN
       probe' = [op |-> "escape", arg |-> <<cr, ci, cap>>,
                 res |-> [n |-> n,
                          color |-> ColorFunc(n, <<cr * Scale, ci * Scale, cap>>,
                                              inc, cap, COLOR_CHECKERED)]]
  /\ UNCHANGED <<mvars, cvars, pvars, hvars, lastEvent, lastWriter, chain, painted, view>>

NextFun ==
  \/ ConstructProbe
  \/ MaxNProbe
  \/ EscapeProbe

SpecFun == Init /\ [][NextFun]_vars

Next ==
  \/ Start
  \/ \E kind \in NavKinds \cup {"cancel"} : Click(kind)
  \/ RunJob
  \/ \E r \in DOMAIN runs : Resume(r)
  \/ Render
  \/ SelectColor(COLOR_CHECKERED_BW)
  \/ \E p \in PtrDowns : PointerDown(p[1], p[2])
  \/ \E p \in PtrMoves : PointerMove(p[1], p[2])
  \/ \E p \in PtrMoves : PointerUp(p[1], p[2])
  \/ PointerCancel

Spec == Init /\ [][Next]_vars

\* The buttons, the scheduler and the render loop, without the pointer and
\* the colour list.  The host runs every queued microtask, and every
\* animation-frame callback it was asked for, however many other tasks it
\* runs in between.
NextButtons ==
  \/ Start
  \/ \E kind \in NavKinds \cup {"cancel"} : Click(kind)
  \/ RunJob
  \/ \E r \in DOMAIN runs : Resume(r)
  \/ Render

SpecButtons == Init /\ [][NextButtons]_vars

FairSpec ==
  /\ Init /\ [][NextButtons]_vars
  /\ WF_vars(RunJob)
  /\ \A r \in 1 .. MaxRuns : SF_vars(Resume(r))

\* Zoom-in and zoom-out clicks alone, with the bookkeeping of one sequence of
\* zoom-ins followed by zoom-outs: ChainBegin marks the state just before the
\* first zoom-in, when no earlier action is still waiting.
ChainBegin ==
  /\ started
  /\ jobs = <<>>
  /\ waiters = <<>>
  /\ chain.phase = "none"
  /\ chain' = [phase |-> "ins", ins |-> 0, outs |-> 0,
               vp |-> ChainEntry(center, width, height), hist |-> zoomChain]
  /\ UNCHANGED <<mvars, cvars, pvars, hvars, lastEvent, lastWriter, painted, probe, view>>

NextChain ==
  \/ Start
  \/ ChainBegin
  \/ Click("zoomIn")
  \/ Click("zoomOut")
  \/ RunJob
  \/ \E r \in DOMAIN runs : Resume(r)
  \/ Render

SpecChain == Init /\ [][NextChain]_vars

\* ------------------------------------------- the viewport in float64
\* The viewport arithmetic above is exact, which is what float64 does on the
\* 2x4 canvas only.  Here the controls run on float64 values, on canvases
\* whose ratio float64 cannot hold or cannot invert.  view holds the fields
\* of MandelbrotControls that make the viewport and the pointer, and what
\* decides when a handler runs: scanning and scanLoop of Mandelbrot, the
\* number of the scan whose promise scanPromise is, the scans that sleep
\* (runs), the handlers suspended in `await this.mandelbrot.cancel()`
\* (waiters) and their continuations queued as microtasks (jobs).  A step is
\* a job of the host, as above.  The pixels of a scan and the callback of its
\* promise change no field of view and are left out.
MaxViewChain == 3
\* scans started in one behaviour
MaxViewRuns == 3
\* handlers suspended at one time
MaxViewWaiters == 1

\* the constructors of Mandelbrot and MandelbrotControls on a canvas c; no
\* pointer event has set the mouse fields yet
ViewConstruct(c) ==
  /\ view = NoView
  /\ \E p \in {ConstructViewport(c[1], c[2])} :
       view' = [canvas |-> c,
                ratio |-> FDiv(FromInt(c[1], 0), FromInt(c[2], 0)),
                defaultParams |-> p, params |-> p, zoomChain |-> <<p>>,
                pointerDown |-> FALSE,
                mouseX |-> FZero, mouseY |-> FZero,
                mouseXIni |-> FZero, mouseYIni |-> FZero,
                started |-> FALSE, scanning |-> FALSE, scanLoop |-> FALSE,
                scanPromise |-> 0, runs |-> {}, waiters |-> <<>>, jobs |-> <<>>]
  /\ UNCHANGED <<mvars, cvars, pvars, hvars, lastEvent, lastWriter, chain, painted, probe>>

\* MandelbrotControls._scan and Mandelbrot.scan, on the params the caller has
\* set: _scan sets scanning and scanLoop and runs to its first sleep, or
\* (sleeps = FALSE) through its last row, which ends it with scanning = false
\* and its promise fulfilled
ViewScan(v, sleeps) ==
  [v EXCEPT !.scanning = sleeps, !.scanLoop = TRUE, !.scanPromise = @ + 1,
            !.runs = IF sleeps THEN @ \cup {v.scanPromise + 1} ELSE @]

\* a click on one of the five buttons: _reset, _repaint, _cancel, _zoomIn,
\* _zoomOut up to their `await this.mandelbrot.cancel()`.  _zoomOut returns
\* when the history holds one entry.  cancel() returns at once when nothing
\* scans; else it sets scanLoop = false and the handler waits for the promise
\* of the last scan, which goes on at once when that scan has returned.
ViewClick(kind) ==
  /\ view # NoView
  /\ view.started \/ kind = "cancel"
  /\ view.jobs = <<>>
  /\ kind \in NavKinds =>
       view.scanPromise + Cardinality({n \in 1 .. Len(view.waiters) :
                                         view.waiters[n].kind \in NavKinds}) < MaxViewRuns
  /\ kind = "zoomIn" =>
       Len(view.zoomChain) + Cardinality({n \in 1 .. Len(view.waiters) :
                                            view.waiters[n].kind = "zoomIn"}) < MaxViewChain
  /\ IF kind = "zoomOut" /\ Len(view.zoomChain) = 1
     THEN view' = view
     ELSE IF ~view.scanning /\ ~view.scanLoop
     THEN view' = [view EXCEPT !.jobs = <<kind>>]
     ELSE IF view.scanPromise \in view.runs
     THEN /\ Len(view.waiters) < MaxViewWaiters
          /\ view' = [view EXCEPT !.scanLoop = FALSE,
                                  !.waiters = Append(@, [kind |-> kind,
                                                         run |-> view.scanPromise])]
     ELSE view' = [view EXCEPT !.scanLoop = FALSE, !.jobs = <<kind>>]
  /\ UNCHANGED <<mvars, cvars, pvars, hvars, lastEvent, lastWriter, chain, painted, probe>>

\* one microtask: the handler at the head of the queue goes on after its
\* await.  _reset, _repaint, _zoomIn and _zoomOut change the params and the
\* history, _setMandelbrotParams copies the params to the engine (which is
\* what _zoomIn pushes) and _scan starts; _cancel ends.
ViewContinue ==
  /\ view # NoView
  /\ view.jobs # <<>>
  /\ \E v \in {[view EXCEPT !.jobs = Tail(@)]} :
       CASE Head(view.jobs) = "cancel" -> view' = v
         [] Head(view.jobs) = "repaint" ->
              \E sleeps \in BOOLEAN : view' = ViewScan(v, sleeps)
         [] Head(view.jobs) = "reset" ->
              \E sleeps \in BOOLEAN :
                view' = ViewScan([v EXCEPT !.zoomChain = <<@[1]>>,
                                           !.params = v.defaultParams], sleeps)
         [] Head(view.jobs) = "zoomIn" ->
              \E sleeps \in BOOLEAN :
                \E p \in {[v.params EXCEPT !.width = FHalf(@), !.height = FHalf(@)]} :
                  view' = ViewScan([v EXCEPT !.params = p,
                                             !.zoomChain = Append(@, p)], sleeps)
         [] Head(view.jobs) = "zoomOut" ->
              \E sleeps \in BOOLEAN :
                \E z \in {IF Len(v.zoomChain) > 1
                          THEN SubSeq(v.zoomChain, 1, Len(v.zoomChain) - 1)
                          ELSE v.zoomChain} :
                  view' = ViewScan([v EXCEPT !.zoomChain = z,
                                             !.params = z[Len(z)]], sleeps)
  /\ UNCHANGED <<mvars, cvars, pvars, hvars, lastEvent, lastWriter, chain, painted, probe>>

\* the animation frame that run r sleeps on: _scan goes on after its await.
\* While scanLoop holds it may sweep rows and sleep again, which leaves view
\* as it is.  Else it returns: scanning = false, its promise is fulfilled and
\* the handlers that wait for it are queued in the order they came.
ViewResume(r) ==
  /\ view # NoView
  /\ view.jobs = <<>>
  /\ r \in view.runs
  /\ \/ view.scanLoop /\ view' = view
     \/ view' = [view EXCEPT
                   !.scanning = FALSE,
                   !.runs = @ \ {r},
                   !.jobs = [n \in 1 .. Len(SelectSeq(view.waiters, LAMBDA w : w.run = r)) |->
                               SelectSeq(view.waiters, LAMBDA w : w.run = r)[n].kind],
                   !.waiters = SelectSeq(@, LAMBDA w : w.run # r)]
  /\ UNCHANGED <<mvars, cvars, pvars, hvars, lastEvent, lastWriter, chain, painted, probe>>

\* _setMouseCoords: <<mouseX, mouseY>> for an event at (ex, ey)
ViewSetMouseCoords(v, ex, ey) ==
  LET X == FromInt(Max(0, Min(2 * v.canvas[1], ex)), -1)
      Y == FromInt(Max(0, Min(2 * v.canvas[2], ey)), -1)
      disX0 == FAbs(FSub(X, v.mouseXIni))
      disY0 == FAbs(FSub(Y, v.mouseYIni))
      \* disX / disY > this.ratio; x/0 is Infinity, 0/0 is NaN
      wide == IF disY0.sgn = 0 THEN disX0.sgn # 0
              ELSE FCmp(FDiv(disX0, disY0), v.ratio) > 0
      disX == IF wide THEN FMul(disY0, v.ratio) ELSE disX0
      disY == IF wide THEN disY0 ELSE FDiv(disX0, v.ratio)
  IN <<IF FCmp(X, v.mouseXIni) < 0 THEN FSub(v.mouseXIni, disX)
       ELSE FAdd(v.mouseXIni, disX),
       IF FCmp(Y, v.mouseYIni) < 0 THEN FSub(v.mouseYIni, disY)
       ELSE FAdd(v.mouseYIni, disY)>>

\* a selection that takes the width of the rectangle and leaves the height
ViewSetSelectionHeightKept(v, m) ==
  LET x0 == FMax(FZero, FMin(v.mouseXIni, m[1]))
      x1 == FMin(FromInt(v.canvas[1], 0), FMax(v.mouseXIni, m[1]))
      w == FDiv(FMul(FSub(x1, x0), v.params.width), FromInt(v.canvas[1], 0))
  IN [center |-> v.params.center, width |-> w, height |-> v.params.height]
\* a selection that takes the size of the rectangle and leaves the centre
ViewSetSelectionKeepCenter(v, m) ==
  LET x0 == FMax(FZero, FMin(v.mouseXIni, m[1]))
      x1 == FMin(FromInt(v.canvas[1], 0), FMax(v.mouseXIni, m[1]))
      w == FDiv(FMul(FSub(x1, x0), v.params.width), FromInt(v.canvas[1], 0))
  IN [center |-> v.params.center, width |-> w, height |-> FDiv(w, v.ratio)]
\* _setSelectionCenterAndWidth on the corrected pointer position m: the new
\* params
ViewSetSelectionCenterAndWidth(v, m) ==
  LET hwidth == FHalf(v.params.width)
      hheight == FHalf(v.params.height)
      top == FSub(v.params.center[2], hwidth)
      left == FSub(v.params.center[1], hheight)
      x0 == FMax(FZero, FMin(v.mouseXIni, m[1]))
      y0 == FMax(FZero, FMin(v.mouseYIni, m[2]))
      x1 == FMin(FromInt(v.canvas[1], 0), FMax(v.mouseXIni, m[1]))
      y1 == FMin(FromInt(v.canvas[2], 0), FMax(v.mouseYIni, m[2]))
      w == FDiv(FMul(FSub(x1, x0), v.params.width), FromInt(v.canvas[1], 0))
  IN [center |-> <<FAdd(left, FDiv(FMul(FHalf(FAdd(y0, y1)), v.params.height),
                                   FromInt(v.canvas[2], 0))),
                   FAdd(top, FDiv(FMul(FHalf(FAdd(x0, x1)), v.params.width),
                                  FromInt(v.canvas[1], 0)))>>,
      width |-> w,
      height |-> FDiv(w, v.ratio)]

\* _handlePointerDown (one pointer: the events of another pointerId are
\* ignored); it returns while the engine scans or a drag is under way
ViewPointerDown(ex, ey) ==
  /\ view # NoView
  /\ view.started
  /\ view.jobs = <<>>
  /\ ~(view.scanning \/ view.pointerDown)
  /\ view' = [view EXCEPT !.pointerDown = TRUE,
                          !.mouseX = FromInt(ex, -1), !.mouseXIni = FromInt(ex, -1),
                          !.mouseY = FromInt(ey, -1), !.mouseYIni = FromInt(ey, -1)]
  /\ UNCHANGED <<mvars, cvars, pvars, hvars, lastEvent, lastWriter, chain, painted, probe>>

\* _handlePointerMove
ViewPointerMove(ex, ey) ==
  /\ view # NoView
  /\ view.jobs = <<>>
  /\ view.pointerDown
  /\ \E m \in {ViewSetMouseCoords(view, ex, ey)} :
       view' = [view EXCEPT !.mouseX = m[1], !.mouseY = m[2]]
  /\ UNCHANGED <<mvars, cvars, pvars, hvars, lastEvent, lastWriter, chain, painted, probe>>

\* _handlePointerUp: when the selection made so far counts as a drag, the
\* new params, _setMandelbrotParams, the push of the engine's viewport and
\* _scan
ViewPointerUp(ex, ey) ==
  /\ view # NoView
  /\ view.jobs = <<>>
  /\ view.pointerDown
  /\ IF view.mouseX # view.mouseXIni /\ view.mouseY # view.mouseYIni
     THEN /\ view.scanPromise + Cardinality({n \in 1 .. Len(view.waiters) :
                                               view.waiters[n].kind \in NavKinds}) < MaxViewRuns
          /\ Len(view.zoomChain) + Cardinality({n \in 1 .. Len(view.waiters) :
                                                  view.waiters[n].kind = "zoomIn"}) < MaxViewChain
          /\ \E sleeps \in BOOLEAN :
               \E m \in {ViewSetMouseCoords(view, ex, ey)} :
                 \E p \in {ViewSetSelectionCenterAndWidth(view, m)} :
                   view' = ViewScan([view EXCEPT !.mouseX = m[1], !.mouseY = m[2],
                                                 !.pointerDown = FALSE, !.params = p,
                                                 !.zoomChain = Append(@, p)], sleeps)
     ELSE view' = [view EXCEPT !.pointerDown = FALSE]
  /\ UNCHANGED <<mvars, cvars, pvars, hvars, lastEvent, lastWriter, chain, painted, probe>>

\* Canvases whose ratio float64 holds (3x2, 2x4) and does not hold (13x5,
\* 5x13), wider than high and higher than wide.  Positions are in half
\* pixels: presses on a corner and inside; moves and releases inside, beyond
\* the far corner, and outside above and to the left of the press.
NextView ==
  \/ \E c \in {<<3, 2>>, <<13, 5>>, <<2, 4>>, <<5, 13>>} : ViewConstruct(c)
  \* start(): the initial scan
  \/ /\ view # NoView
     /\ ~view.started
     /\ \E sleeps \in BOOLEAN : view' = ViewScan([view EXCEPT !.started = TRUE], sleeps)
     /\ UNCHANGED <<mvars, cvars, pvars, hvars, lastEvent, lastWriter, chain, painted, probe>>
  \/ \E kind \in NavKinds \cup {"cancel"} : ViewClick(kind)
  \/ ViewContinue
  \/ \E r \in 1 .. MaxViewRuns : ViewResume(r)
  \/ \E p \in {<<0, 0>>, <<2, 2>>} : ViewPointerDown(p[1], p[2])
  \/ \E p \in {<<2, 2>>, <<28, 28>>, <<-2, 1>>} : ViewPointerMove(p[1], p[2])
  \/ \E p \in {<<2, 2>>, <<28, 28>>, <<-2, 1>>} : ViewPointerUp(p[1], p[2])
  \* _handlePointerCancel: the drag ends and nothing is committed
  \/ /\ view # NoView
     /\ view.jobs = <<>>
     /\ view.pointerDown
     /\ view' = [view EXCEPT !.pointerDown = FALSE]
     /\ UNCHANGED <<mvars, cvars, pvars, hvars, lastEvent, lastWriter, chain, painted, probe>>

SpecView == Init /\ [][NextView]_vars

\* ----------------------------------------------------------- properties
Viewport == ChainEntry(center, width, height)
ViewportOf(d) == ChainEntry(d.center, d.width, d.height)
\* the pixels that hold a result are exactly those of the first r rows
RowsFilled(r) == \A k \in Pixels : (ns[k] # 0) <=> (k < r * imgWidth)

\* C1: at most one scan run has started and not yet reported, in every
\* state, whatever clicks, pointer events and resumptions came before.
AtMostOneActiveScan == Cardinality(DOMAIN runs) <= 1

\* C2: the pixel records are written by the most recently started run only,
\* and the committed viewport is the one every unfinished run was started on.
ExclusiveOwnership ==
  /\ lastWriter = scanPromise
  /\ \A r \in DOMAIN runs : ViewportOf(runs[r].data) = Viewport

\* C3: a run during which cancel() was called reports Cancelled: no scan-end
\* notification of such a run carries success = true.
CancelledRunReportsCancelled ==
  /\ lastEvent.type = "scan-end" /\ lastEvent.cancelReq => ~lastEvent.success
  /\ \A n \in 1 .. Len(jobs) :
       jobs[n].type = "cb" /\ jobs[n].cancelReq => ~jobs[n].success

\* C4: while a run sleeps, and when a run has reported Cancelled, the pixels
\* with a non-zero iteration count are exactly those of the first r rows, for
\* some r.
StopsAtRowBoundary ==
  (\/ DOMAIN runs # {}
   \/ \E n \in 1 .. Len(jobs) : jobs[n].type = "cb" /\ ~jobs[n].success)
    => \E r \in 0 .. imgHeight : RowsFilled(r)

\* C5: after n zoom-in clicks followed by n zoom-out clicks, once no handler
\* waits and no microtask is queued, the committed viewport and the zoom
\* history are what they were just before the first zoom-in.
ZoomChainUndo ==
  (/\ chain.phase = "outs" /\ chain.ins = chain.outs
   /\ waiters = <<>> /\ jobs = <<>>)
    => Viewport = chain.vp /\ zoomChain = chain.hist

\* C6: the zoom history is never empty and its first entry is the viewport
\* the controller was constructed with.
HistoryRooted ==
  /\ Len(zoomChain) >= 1
  /\ zoomChain[1] = ChainEntry(initCenter, initWidth, initHeight)
\* a zoom-out has taken the history back to its root
HistoryRootedWitness ==
  /\ lastEvent.type = "scan-start" /\ lastEvent.kind = "zoomOut"
  /\ Len(zoomChain) = 1

\* C7: the top of the zoom history is the committed viewport, which is the
\* engine's center, width and height and the controller's params.
TopIsCommitted ==
  /\ zoomChain[Len(zoomChain)] = Viewport
  /\ ChainEntry(params.center, params.width, params.height) = Viewport
\* a drag-zoom has committed a smaller viewport and pushed it
TopIsCommittedWitness ==
  /\ lastEvent.type = "scan-start" /\ lastEvent.kind = "drag"
  /\ Len(zoomChain) = 2
  /\ center # initCenter /\ 0 < width /\ width < initWidth

\* C8: the committed viewport never has a non-positive width or height.
ViewportPositive == width > 0 /\ height > 0

\* C9: a scan-end notification carries the viewport and the colour scheme
\* that the scan-start notification of the same run carried.
EndCarriesStartData ==
  lastEvent.type = "scan-end" => lastEvent.data = lastEvent.startData

\* C11: a click on zoom-out while the history holds one entry changes nothing:
\* not the viewport, the history or the pixel records, not scanLoop or the
\* runs in flight, and it starts no scan and dispatches no notification.
ZoomOutAtRootIsNoOp ==
  [][(Len(zoomChain) = 1 /\ Click("zoomOut"))
       => UNCHANGED <<mvars, cvars, pvars, hvars, lastEvent, lastWriter>>]_vars
\* zoom-out was clicked first in a sequence, on the root, while a run sleeps
\* uncancelled
ZoomOutAtRootWitness ==
  /\ chain.phase = "broken" /\ Len(zoomChain) = 1
  /\ runs # <<>> /\ scanLoop /\ scanning
  /\ waiters = <<>> /\ jobs = <<>> /\ scanPromise = 1

\* C12: cancel clicked while no run is in flight changes nothing that can be
\* observed: the click and the handler's continuation leave the viewport, the
\* history, the pixel records and the scan promise alone and dispatch
\* nothing; and no run is ever reported Cancelled unless cancel() was called
\* while it was in flight.
CancelContinues ==
  /\ jobs # <<>> /\ Head(jobs).type = "cont" /\ Head(jobs).kind = "cancel"
  /\ RunJob
ReportedCancelledWasCancelled ==
  /\ lastEvent.type = "scan-end" /\ ~lastEvent.success => lastEvent.cancelReq
  /\ \A n \in 1 .. Len(jobs) :
       jobs[n].type = "cb" /\ ~jobs[n].success => jobs[n].cancelReq
CancelInIdleIsNoOp ==
  /\ [][(runs = <<>> /\ (Click("cancel") \/ CancelContinues))
          => UNCHANGED <<center, width, height, colorFuncId, params, zoomChain,
                         ns, src, pix, scanning, scanPromise, runs, waiters,
                         lastEvent, lastWriter>>]_vars
  /\ []ReportedCancelledWasCancelled
\* cancel was clicked after a run completed that no cancel() had touched
CancelInIdleWitness ==
  /\ runs = <<>> /\ jobs = <<ContJob("cancel")>> /\ ~scanLoop
  /\ lastEvent.type = "scan-end" /\ lastEvent.success /\ ~lastEvent.cancelReq

\* C13: when reset has committed (its scan-start is the last notification),
\* the history is the root entry alone, the engine's viewport and the
\* controller's params are the defaults of the construction, the colour scheme
\* is the constructed one, and the scan just started is a scan of them.
RootEntry == ChainEntry(initCenter, initWidth, initHeight)
ResetCommitsDefaults ==
  (lastEvent.type = "scan-start" /\ lastEvent.kind = "reset") =>
    /\ zoomChain = <<RootEntry>>
    /\ Viewport = RootEntry
    /\ colorFuncId = initColorFuncId
    /\ params = defaultParams
    /\ lastEvent.data = EventData(initCenter, initWidth, initHeight, initColorFuncId)
    /\ \/ /\ scanPromise \in DOMAIN runs
          /\ runs[scanPromise].kind = "reset"
          /\ runs[scanPromise].data = lastEvent.data
       \/ \E n \in 1 .. Len(jobs) :
            /\ jobs[n].type = "cb" /\ jobs[n].run = scanPromise
            /\ jobs[n].kind = "reset" /\ jobs[n].data = lastEvent.data
\* reset has committed while a run started on another colour scheme sleeps
ResetCommitsDefaultsWitness ==
  /\ lastEvent.type = "scan-start" /\ lastEvent.kind = "reset"
  /\ \E r \in DOMAIN runs : r # scanPromise /\ runs[r].data.colorFuncId # initColorFuncId

\* C14: the committed viewport has the aspect ratio of the canvas.  The
\* sides are float64 values, and height = width / ratio is rounded, so the
\* equation width * height_px = height * width_px holds up to that rounding:
\* the two products differ by at most 2^-51 of their size, in every state
\* whose sides are zero or in the normal range of float64, and they are equal
\* on a canvas whose ratio is a power of two.
PowerOfTwoRatio(c) == \E k \in 0 .. 20 : c[1] = c[2] * 2^k \/ c[2] = c[1] * 2^k
WidthByHeightPx(v) == ExMul(v.params.width, FromInt(v.canvas[2], 0))
HeightByWidthPx(v) == ExMul(v.params.height, FromInt(v.canvas[1], 0))
AspectGap(v) == FAbs(ExSub(WidthByHeightPx(v), HeightByWidthPx(v)))
AspectKept ==
  (view # NoView /\ FNormal(view.params.width) /\ FNormal(view.params.height)) =>
    /\ ExLe(ExScale(AspectGap(view), 51), WidthByHeightPx(view))
    /\ PowerOfTwoRatio(view.canvas) => AspectGap(view).sgn = 0
\* a zoom-in has halved a viewport that a drag-zoom selected on the 3x2
\* canvas, and the two products differ
AspectKeptWitness ==
  /\ view # NoView /\ view.canvas = <<3, 2>>
  /\ Len(view.zoomChain) = 3
  /\ view.zoomChain[2].center # view.zoomChain[1].center
  /\ view.params.width = FHalf(view.zoomChain[2].width)
  /\ view.params.height = FHalf(view.zoomChain[2].height)
  /\ AspectGap(view).sgn # 0
\* C14 as stated: width * height_px = height * width_px, in every state
AspectExact == view # NoView => AspectGap(view).sgn = 0

\* C15: on every canvas the constructed viewport is centred at (0, 0), its
\* smaller side is 4, so that it holds the circle of radius 2, and its sides
\* are in the ratio of the canvas up to the rounding of float64: the products
\* width * height_px and height * width_px differ by at most 2^-51 of their
\* size, and they are equal on a canvas whose ratio is a power of two.
ConstructGap(iw, ih, v) ==
  FAbs(ExSub(ExMul(v.width, FromInt(ih, 0)), ExMul(v.height, FromInt(iw, 0))))
ConstructFits(v) ==
  /\ v.center = <<FZero, FZero>>
  /\ FCmp(v.width, FromInt(4, 0)) >= 0 /\ FCmp(v.height, FromInt(4, 0)) >= 0
  /\ v.width = FromInt(4, 0) \/ v.height = FromInt(4, 0)
ConstructInscribes ==
  probe.op = "construct" =>
    /\ ConstructFits(probe.res)
    /\ ExLe(ExScale(ConstructGap(probe.arg[1], probe.arg[2], probe.res), 51),
            ExMul(probe.res.width, FromInt(probe.arg[2], 0)))
    /\ PowerOfTwoRatio(probe.arg) =>
         ConstructGap(probe.arg[1], probe.arg[2], probe.res).sgn = 0
\* the constructor has run on a canvas taller than wide, whose ratio float64
\* does not hold
ConstructInscribesWitness ==
  /\ probe.op = "construct" /\ probe.arg = <<3, 5>>
  /\ ConstructGap(3, 5, probe.res).sgn # 0
\* C15 as stated: the sides are in the ratio of the canvas
ConstructExact ==
  probe.op = "construct" =>
    /\ ConstructFits(probe.res)
    /\ ConstructGap(probe.arg[1], probe.arg[2], probe.res).sgn = 0

\* C16: maxN is the entry of the threshold table for min(width, height), and
\* a viewport with a larger smaller side never gets a larger maxN.
MaxNTable(m) ==
  IF m > 4000000 THEN 250
  ELSE IF m > 400000 THEN 1000
  ELSE IF m > 40000 THEN 2500
  ELSE IF m > 4000 THEN 5000
  ELSE IF m > 400 THEN 10000
  ELSE IF m > 40 THEN 25000
  ELSE 50000
MaxNMonotone ==
  probe.op = "maxN" =>
    LET m1 == Min(probe.arg[1], probe.arg[2])
        m2 == Min(probe.arg[3], probe.arg[4])
    IN /\ probe.res[1] = MaxNTable(m1)
       /\ probe.res[2] = MaxNTable(m2)
       /\ m1 <= m2 => probe.res[1] >= probe.res[2]
\* the function has run on the two sides of the finest threshold
MaxNMonotoneWitness ==
  /\ probe.op = "maxN"
  /\ Min(probe.arg[1], probe.arg[2]) = 40 /\ Min(probe.arg[3], probe.arg[4]) = 41

\* C18: with maxN = 250 the loop ends with n = 250 at c = (0, 0) and at
\* c = (-1, 0), which the checkered scheme paints white, with n = 1 at
\* c = (3, 3) and with n <= 5 at c = (1, 1).
EscapeKnownPoints ==
  (probe.op = "escape" /\ probe.arg[3] = 250) =>
    /\ probe.arg = <<0, 0, 250>> => probe.res.n = 250 /\ probe.res.color = White
    /\ probe.arg = <<-1, 0, 250>> => probe.res.n = 250 /\ probe.res.color = White
    /\ probe.arg = <<3, 3, 250>> => probe.res.n = 1
    /\ probe.arg = <<1, 1, 250>> => probe.res.n <= 5 /\ probe.res.n >= 1
\* the loop has run on c = (-1, 0)
EscapeKnownPointsWitness ==
  probe.op = "escape" /\ probe.arg = <<-1, 0, 250>> /\ probe.res.n = 250

\* C17: a run begins from reset records: in the step that starts a run, every
\* pixel the run has not reached yet has iteration count 0, numeric fields 0
\* and needs colour, and every pixel it has reached holds a sample of the
\* run's own viewport; the arrays keep their length throughout.
FirstUnswept ==
  IF scanPromise \in DOMAIN runs THEN runs[scanPromise].k ELSE imgSize
FreshRecordsAtStart ==
  /\ [][scanPromise' # scanPromise =>
          \A k \in Pixels :
            IF k >= FirstUnswept'
            THEN ns'[k] = 0 /\ src'[k] = NoSample /\ pix'[k] = 1
            ELSE ns'[k] # 0 /\ src'[k][3] = maxN']_vars
  /\ [](DOMAIN ns = Pixels /\ DOMAIN src = Pixels /\ DOMAIN pix = Pixels)
\* repaint has started a run, which sleeps after its first row, after the
\* run of start() slept and was cancelled
FreshRecordsWitness ==
  /\ lastEvent.type = "scan-start" /\ lastEvent.kind = "repaint" /\ scanPromise = 2
  /\ scanPromise \in DOMAIN runs /\ runs[scanPromise].k = imgWidth
  /\ image[0] = Opaque(<<187, 217, 72>>) /\ image[imgSize - 1] = Opaque(Black)

\* C19: when every run has reported and a render pass has run since, a pixel
\* without a result is painted black, and a pixel with a result is marked as
\* coloured and painted with the colour of its present record.
RenderConsistent ==
  (runs = <<>> /\ jobs = <<>> /\ painted) =>
    \A k \in Pixels :
      IF ns[k] = 0 THEN image[k] = Opaque(Black)
      ELSE /\ pix[k] = 0
           /\ image[k] = Opaque(ColorFunc(ns[k], src[k], inc, maxN, colorFuncId))

\* C20: in the step in which a run returns Completed (its callback joins the
\* job queue), every pixel holds a result, and the result is the one of its
\* sample in the committed viewport.
SampleOf(k) ==
  <<center[1] - Quot(height, 2) + Quot(inc, 2) + (k \div imgWidth) * inc,
    center[2] - Quot(width, 2) + Quot(inc, 2) + (k % imgWidth) * inc,
    maxN>>
CompletedSweptAll ==
  [][(\E n \in 1 .. Len(jobs') :
        /\ jobs'[n].type = "cb" /\ jobs'[n].success
        /\ \A m \in 1 .. Len(jobs) :
             jobs[m].type = "cb" => jobs[m].run # jobs'[n].run)
       => \A k \in Pixels : ns'[k] # 0 /\ src'[k] = SampleOf(k)']_vars

\* C21: the step in which a zoom-in takes effect (its handler goes on after
\* the await) commits half the width, half the height and the same center,
\* appends that viewport, and nothing else, to the history, and starts one
\* scan of it; the click itself changes none of these; and when k zoom-ins
\* were clicked from a state at rest and all have gone on, the history is k
\* entries longer and the viewport is the k-th halving, however the clicks
\* were timed against the runs in flight.
ZoomInContinues ==
  /\ jobs # <<>> /\ Head(jobs).type = "cont" /\ Head(jobs).kind = "zoomIn"
  /\ RunJob
ZoomInHalves ==
  /\ [][ZoomInContinues =>
          /\ 2 * width' = width /\ 2 * height' = height /\ center' = center
          /\ zoomChain' = Append(zoomChain, ChainEntry(center', width', height'))
          /\ scanPromise' = scanPromise + 1
          /\ (DOMAIN runs') \ (DOMAIN runs) \subseteq {scanPromise'}
          /\ \/ scanPromise' \in DOMAIN runs'
             \/ \E n \in 1 .. Len(jobs') :
                  jobs'[n].type = "cb" /\ jobs'[n].run = scanPromise'
          /\ lastEvent'.type = "scan-start" /\ lastEvent'.kind = "zoomIn"
          /\ ViewportOf(lastEvent'.data) = ChainEntry(center', width', height')]_vars
  /\ [][Click("zoomIn") =>
          UNCHANGED <<center, width, height, zoomChain, scanPromise>>]_vars
  /\ []((chain.phase = "ins" /\ waiters = <<>> /\ jobs = <<>>) =>
          /\ Len(zoomChain) = Len(chain.hist) + chain.ins
          /\ width * 2 ^ chain.ins = chain.vp.width
          /\ height * 2 ^ chain.ins = chain.vp.height
          /\ center = chain.vp.center)
\* two zoom-ins were clicked while the run of start() slept; both have gone
\* on, and the scans they started are both in flight
ZoomInHalvesWitness ==
  /\ chain.phase = "ins" /\ chain.ins = 2 /\ Len(chain.hist) = 1
  /\ waiters = <<>> /\ jobs = <<>>
  /\ Len(zoomChain) = 3 /\ 4 * width = initWidth
  /\ DOMAIN runs = {2, 3}

\* C22: a committed drag-zoom maps the dragged rectangle linearly onto the
\* committed region, up to the rounding of float64.  The clamped and
\* aspect-corrected rectangle between the press and the release lies in the
\* canvas, and has its aspect ratio to within 2^-50 of width_px * height_px.
\* On each axis, with tol = 2^-49 * (|old centre| + old side): the new side
\* is at most the old side + tol, the new edges are at most tol outside the
\* old edges, and they are within tol of the coordinates that the scan's
\* mapping (pixel edge x at old edge + x * inc, with the inc of the scan of
\* the old viewport) gives to the edges of the rectangle.  This is for old
\* sides in the normal range of float64.
ViewDragCommits ==
  /\ view # NoView
  /\ view.pointerDown /\ ~view'.pointerDown
  /\ Len(view'.zoomChain) = Len(view.zoomChain) + 1
\* one axis: the old centre c1 and side s1, the new centre c2 and side s2,
\* the rectangle from pixel a0 to pixel a1
DragAxis(c1, s1, c2, s2, a0, a1, scale, tol) ==
  /\ ExLe(s2, ExAdd(s1, tol))
  /\ ExLe(ExSub(ExSub(c1, FHalf(s1)), tol), ExSub(c2, FHalf(s2)))
  /\ ExLe(ExAdd(c2, FHalf(s2)), ExAdd(ExAdd(c1, FHalf(s1)), tol))
  /\ ExNear(ExSub(c2, FHalf(s2)), ExAdd(ExSub(c1, FHalf(s1)), ExMul(a0, scale)), tol)
  /\ ExNear(ExAdd(c2, FHalf(s2)), ExAdd(ExSub(c1, FHalf(s1)), ExMul(a1, scale)), tol)
\* the rectangle r lies in the canvas c
RectInCanvas(c, r) ==
  /\ FCmp(FZero, r[1]) <= 0 /\ FCmp(r[1], r[3]) <= 0 /\ FCmp(r[3], FromInt(c[1], 0)) <= 0
  /\ FCmp(FZero, r[2]) <= 0 /\ FCmp(r[2], r[4]) <= 0 /\ FCmp(r[4], FromInt(c[2], 0)) <= 0
\* how far the rectangle r is from the aspect ratio of the canvas c
RectGap(c, r) ==
  FAbs(ExSub(ExMul(ExSub(r[3], r[1]), FromInt(c[2], 0)), ExMul(ExSub(r[4], r[2]), FromInt(c[1], 0))))
\* tol of an axis, or zero for the exact statement
AxisTol(c1, s1, exact) == IF exact THEN FZero ELSE ExScale(ExAdd(FAbs(c1), s1), -49)
RectTol(c, exact) == IF exact THEN FZero ELSE ExScale(FromInt(c[1] * c[2], 0), -50)
\* the drag that took the viewport old to new with the rectangle r
DragMaps(c, old, new, r, scale, exact) ==
  /\ RectInCanvas(c, r)
  /\ ExLe(RectGap(c, r), RectTol(c, exact))
  /\ DragAxis(old.center[2], old.width, new.center[2], new.width, r[1], r[3], scale,
              AxisTol(old.center[2], old.width, exact))
  /\ DragAxis(old.center[1], old.height, new.center[1], new.height, r[2], r[4], scale,
              AxisTol(old.center[1], old.height, exact))
\* the rectangle <<x0, y0, x1, y1>> between the press and the corrected
\* release, clamped to the canvas
DragRect(v) ==
  <<FMax(FZero, FMin(v.mouseXIni, v.mouseX)),
    FMax(FZero, FMin(v.mouseYIni, v.mouseY)),
    FMin(FromInt(v.canvas[1], 0), FMax(v.mouseXIni, v.mouseX)),
    FMin(FromInt(v.canvas[2], 0), FMax(v.mouseYIni, v.mouseY))>>
DragStepMaps(exact) ==
  DragMaps(view.canvas, view.params, view'.params, DragRect(view'),
           FDiv(view.params.width, FromInt(view.canvas[1], 0)), exact)
DragMapsInside ==
  [][(ViewDragCommits /\ FNormal(view.params.width) /\ FNormal(view.params.height))
       => DragStepMaps(FALSE)]_vars
\* on the 13x5 canvas a drag over the whole canvas has been committed, and
\* the new viewport is wider than the constructed one
DragMapsInsideWitness ==
  /\ view # NoView /\ view.canvas = <<13, 5>>
  /\ ~view.pointerDown
  /\ Len(view.zoomChain) = 2
  /\ view.mouseXIni = FZero /\ view.mouseX = FromInt(13, 0)
  /\ FCmp(view.params.width, view.zoomChain[1].width) > 0
\* C22 as stated: the rectangle has the aspect ratio of the canvas, the new
\* sides are at most the old sides, the new edges are within the old edges
\* and equal to the mapped edges of the rectangle
DragMapsExact == [][ViewDragCommits => DragStepMaps(TRUE)]_vars

\* C23: in every state, each pixel's iteration count is 0 or lies in
\* 1 .. maxN; it is 0 exactly when no run has written the pixel since the
\* arrays were last reset; and a pixel marked as coloured has a count other
\* than 0.
Written(k) == src[k] # NoSample
SentinelUnambiguous ==
  \A k \in Pixels :
    /\ ns[k] \in 0 .. maxN
    /\ (ns[k] = 0) <=> ~Written(k)
    /\ Written(k) => src[k][3] = maxN
    /\ pix[k] = 0 => ns[k] # 0
\* while a run is in flight and rows are still to be swept, a render pass has
\* coloured a pixel that escaped at the first iteration and one that never
\* escaped
SentinelWitness ==
  /\ runs # <<>> /\ painted
  /\ \E k \in Pixels : ns[k] = 0 /\ pix[k] = 1 /\ image[k] = Opaque(Black)
  /\ \E k \in Pixels : ns[k] = 1 /\ pix[k] = 0
  /\ \E k \in Pixels : ns[k] = maxN /\ pix[k] = 0 /\ image[k] = Opaque(White)

\* C10: with the scheduler fair, every run that has started reports, and
\* every handler that waits for a cancellation goes on and its microtasks
\* run: the controller gets back to rest, and every navigation handler that
\* waited has started its scan.
Resting == waiters = <<>> /\ jobs = <<>>
Waits(kind) == \E n \in 1 .. Len(waiters) : waiters[n].kind = kind
NoDeadlock ==
  /\ \A r \in 1 .. MaxRuns : (r \in DOMAIN runs) ~> (r \notin DOMAIN runs)
  /\ (~Resting) ~> Resting
  /\ \A kind \in NavKinds :
       Waits(kind) ~> (lastEvent.type = "scan-start" /\ lastEvent.kind = kind)
\* a navigation handler waits for the cancellation of a sleeping run
NoDeadlockWitness ==
  /\ Len(waiters) = 2
  /\ \A n \in 1 .. Len(waiters) : waiters[n].kind \in NavKinds /\ waiters[n].run \in DOMAIN runs
  /\ ~scanLoop

=============================================================================
